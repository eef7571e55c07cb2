------------------------ MODULE MCBrowserTransaction ------------------------
(* Small instance of BrowserTransaction and CaptureReceipt: identities of    *)
(* both kinds, one also in an order that is not canonical and one whose      *)
(* profile version does not belong to its wire version, and failure records  *)
(* that do and do not fit their class.                                       *)
EXTENDS CaptureReceipt, TLC

CONSTANTS p1, p2, g1, g2, source, review, huge, a, b, c, d

Registration(version, schema, result, order) ==
  [version |-> version, kind |-> "registration",
   candidates |-> <<[kind |-> "registration", schema |-> schema]>>, result |-> result,
   bindings |-> 1, session |-> FALSE, wellFormed |-> TRUE, order |-> order]

Authentication ==
  [version |-> 1, kind |-> "authentication_capability",
   candidates |-> <<[kind |-> "authentication", schema |-> "authentication.1.0"],
                    [kind |-> "capability", schema |-> "browser.1.7"]>>,
   result |-> "authenticated.v2", bindings |-> 0, session |-> TRUE,
   wellFormed |-> TRUE, order |-> "canonical"]

SomeIdentities ==
  {Authentication,
   Registration(3, "registration.1.1", "registration.v3", "canonical"),
   Registration(3, "registration.1.1", "registration.v3", "other"),
   Registration(2, "registration.1.1", "registration.v2", "canonical")}

SomeFailures ==
  {[class |-> "operational", code |-> "promotion_failed"],
   [class |-> "operational", code |-> "workspace_conflict"],
   [class |-> "indeterminate", code |-> "promotion_indeterminate"]}

(* A prepared snapshot of another package, valid in itself. *)
SomeForgeries ==
  {[identity |-> Registration(3, "registration.1.1", "registration.v3", "canonical"),
    state |-> "prepared", preparation |-> p2, promotion |-> None, failure |-> None],
   [identity |-> Registration(3, "registration.1.1", "registration.v3", "other"),
    state |-> "reviewed", preparation |-> None, promotion |-> None, failure |-> None]}

(* A capture with one source and one review, observed at 2 and expired at 3. *)
SomeProvenance ==
  [id \in SomeIdentities |->
    [hashes |-> {Tagged(source), Tagged(review)}, observed |-> 2, expires |-> 3]]

(* Three files, of which a receipt may declare two; a fourth is too many. *)
SomeBundles == {a :> source @@ b :> review @@ c :> source @@ d :> NoFile}

(* Too few for the candidates, enough in two ways, and more than may be. *)
SomeLists == {{a}, {a, b}, {b, c}, {a, b, c}}

Sizes == [content \in {source, review, huge} |-> IF content = huge THEN 5 ELSE 2]

(* Nothing but equality is asked of promotion digests. *)
GenerationSymmetry == Permutations({g1, g2})
=============================================================================
