------------------------------ MODULE ReviewDesk ------------------------------
(***************************************************************************)
(* The review desk (infrastructure/google_docs_review_desk.py): one folder *)
(* of Docs, found by their review, each with the package it was made from  *)
(* and what the reviewer typed.  A call can be refused, and the creation   *)
(* of a Doc can take effect although its answer is lost.  A Doc's position *)
(* in the folder is its location.                                          *)
(***************************************************************************)
EXTENDS Integers, Sequences

CONSTANTS Decisions, Undecided   \* Undecided: nothing typed, or nothing recognisable

VARIABLE docs

Init == docs = <<>>

\* _find
Found(review) == {i \in DOMAIN docs : docs[i].review = review}

IsPublished(review, package) ==
  \E i \in Found(review) : Found(review) = {i} /\ docs[i].package = package

Location(review) == CHOOSE i \in Found(review) : TRUE

Created(review, package) ==
  docs' = Append(docs, [review |-> review, package |-> package, decision |-> Undecided])

\* Mutant: a Doc is created without a look for the one that exists.
PublishAgain(review, package) == Created(review, package)

\* publish, when it answers: the location is Location(review)'.
Publish(review, package) ==
  \/ Found(review) = {} /\ Created(review, package)
  \/ IsPublished(review, package) /\ UNCHANGED docs

\* publish, when it raises ReviewDeskError: no call reached the folder, the
\* answer to the creation was lost, or the Docs found are not this package's.
PublishRefused(review, package) ==
  \/ UNCHANGED docs
  \/ Found(review) = {} /\ Created(review, package)

\* fetch_decision, when it answers.
CanFetch(review) == \E i \in Found(review) : Found(review) = {i}
Fetched(review) == docs[Location(review)].decision

\* The reviewer types, and may change their mind.
Decide(review, decision) ==
  \E i \in Found(review) : docs' = [docs EXCEPT ![i].decision = decision]
=============================================================================
