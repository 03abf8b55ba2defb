--------------------------- MODULE ProductionProofs ---------------------------
(***************************************************************************)
(* Invocations for a brief, for any plans, policies and stored Runs:       *)
(* proofs about BriefProduction.                                           *)
(***************************************************************************)
EXTENDS BriefProduction, TLAPS

(* The Director is only busy while it produces, a decision is only fetched *)
(* for a pending review, and a report in progress is of the stored status. *)
InvocationInv ==
  /\ phase # "producing" => pc = "idle"
  /\ phase = "fetching" => IsReviewPending
  /\ owed # NoStatus => owed = stored.status
  /\ board = [status |-> board.status, link |-> board.link]

\* A production that ends leaves the Director idle and the store alone.
LEMMA InterruptReturns == Director!Interrupt => pc' = "idle" /\ stored' = stored
  BY DEF Director!Interrupt, Director!Return, Director!Stop

\* An evaluator that raises ends the invocation.
LEMMA EvaluatorStops == Director!EvaluatorFails => pc' = "idle"
  BY DEF Director!EvaluatorFails, Director!CommitAndStop, Director!Stop

\* A save that finds no report in progress owes at most the saved status.
LEMMA SaveOwes ==
  ASSUME NEW status, owed = NoStatus, Reporter!Save(status)
  PROVE  owed' \in {NoStatus, status}
  BY DEF Reporter!Save, Reporter!unchanged, Reporter!BeginReport

\* The same of the save a step of the Director asks for, or not.
LEMMA SavedOwes ==
  ASSUME owed = NoStatus, Saved
  PROVE  owed' # NoStatus => owed' = stored'.status
<1>1. CASE stored' = stored
  BY <1>1 DEF Saved, Reporter!unchanged
<1>2. CASE stored' # stored
  BY <1>2, SaveOwes DEF Saved
<1> QED
  BY <1>1, <1>2

\* No save writes to the board by itself.
LEMMA SaveKeepsBoard ==
  ASSUME NEW status, Reporter!Save(status)
  PROVE  board' = board
  BY DEF Reporter!Save, Reporter!unchanged, Reporter!BeginReport

\* The same of the save a step of the Director asks for, or not.
LEMMA SavedKeepsBoard == Saved => board' = board
  BY SaveKeepsBoard DEF Saved, Reporter!unchanged

(* The invariant the theorems below rest on. *)
THEOREM InvocationsKept == Spec => []InvocationInv
<1>1. Init => InvocationInv
  BY DEF Init, InvocationInv, Director!Init, Reporter!Init
<1>2. InvocationInv /\ [Next]_vars => InvocationInv'
  <2> SUFFICES ASSUME InvocationInv, [Next]_vars
               PROVE  InvocationInv'
    OBVIOUS
  <2> USE DEF InvocationInv, At, Goto, GoOnAt, Return, Raise, Reporter!IsIdle,
              directorVars, reporterVars, IsReviewPending, Review
  <2>1. CASE Begin \/ Decide \/ UNCHANGED vars
    BY <2>1 DEF Begin, Decide, vars, Director!PendingReview, Director!Latest
  <2>2. CASE PublishFirst \/ Publish
    BY <2>2 DEF PublishFirst, Publish, PublishAt, Director!PendingReview
  <2>3. CASE NothingToDecide \/ StoreFails \/ FetchNothing
    BY <2>3 DEF NothingToDecide, StoreFails, FetchNothing
  <2>4. CASE FetchDecision \/ PlayReviewer
    BY <2>4, SaveOwes, SaveKeepsBoard DEF FetchDecision, PlayReviewer, Submitted
  <2>5. CASE NoBriefFetched \/ Sync
    <3>1. CASE NoBriefFetched
      BY <3>1 DEF NoBriefFetched
    <3>2. CASE Sync
      BY <3>2 DEF Sync, Reporter!Sync, Reporter!unchanged, Reporter!BeginReport
    <3> QED
      BY <2>5, <3>1, <3>2
  <2>6. CASE Resume
    BY <2>6 DEF Resume, Director!Invoke
  <2>7. CASE Drive
    BY <2>7, SavedOwes, SavedKeepsBoard DEF Drive
  <2>8. CASE NoVerdict
    BY <2>8, SaveOwes, SaveKeepsBoard, EvaluatorStops DEF NoVerdict
  <2>9. CASE ProductionFails
    BY <2>9, InterruptReturns DEF ProductionFails
  <2>10. CASE Report
    BY <2>10 DEF Report, Reporter!ReportShown, Reporter!ReportRefused
  <2>11. CASE NothingToPublish \/ KeepLink
    BY <2>11 DEF NothingToPublish, KeepLink
  <2>12. CASE WriteLink
    BY <2>12 DEF WriteLink, Reporter!LocationShown, Reporter!LocationRefused
  <2>13. CASE Crash
    BY <2>13, InterruptReturns DEF Crash, Reporter!Restart
  <2> QED
    BY <2>1, <2>2, <2>3, <2>4, <2>5, <2>6, <2>7, <2>8, <2>9, <2>10, <2>11, <2>12, <2>13
       DEF Next, TakeDecision, Produce, ShowReview
<1> QED
  BY <1>1, <1>2, PTL DEF Spec

(* The board follows the store: a status is written to it by a report only, *)
(* and a report in progress is of the stored status (brief_status.py).      *)
THEOREM BoardKept == Spec => BoardFollowsStore
<1>1. InvocationInv /\ [Next]_vars
        => [board'.status # board.status =>
              stored' = stored /\ board'.status = stored.status]_vars
  <2> SUFFICES ASSUME InvocationInv, Next, board'.status # board.status
               PROVE  stored' = stored /\ board'.status = stored.status
    OBVIOUS
  <2> USE DEF reporterVars, directorVars
  <2>1. CASE Report
    <3>1. owed # NoStatus
      BY <2>1 DEF Report, Reporter!ReportShown, Reporter!ReportRefused
    <3>2. board'.status \in {board.status, owed}
      BY <2>1 DEF Report, Reporter!ReportShown, Reporter!ReportRefused, InvocationInv
    <3> QED
      BY <2>1, <3>1, <3>2 DEF Report, InvocationInv
  <2>2. CASE WriteLink
    BY <2>2 DEF WriteLink, Reporter!LocationShown, Reporter!LocationRefused, InvocationInv
  <2>3. CASE FetchDecision \/ PlayReviewer \/ Drive \/ NoVerdict \/ Sync \/ Crash
    BY <2>3, SaveKeepsBoard, SavedKeepsBoard
       DEF FetchDecision, PlayReviewer, Submitted, Drive, NoVerdict, Sync, Crash, Reporter!Sync,
           Reporter!BeginReport, Reporter!unchanged, Reporter!Restart
  <2>4. CASE \/ Begin \/ Decide \/ PublishFirst \/ Publish \/ NothingToDecide
             \/ StoreFails \/ FetchNothing \/ NoBriefFetched \/ Resume \/ ProductionFails
             \/ NothingToPublish \/ KeepLink
    BY <2>4 DEF Begin, Decide, PublishFirst, Publish, PublishAt, NothingToDecide,
                StoreFails, FetchNothing, NoBriefFetched, Resume, ProductionFails, NothingToPublish,
                KeepLink
  <2> QED
    BY <2>1, <2>2, <2>3, <2>4 DEF Next, TakeDecision, Produce, ShowReview
<1> QED
  BY <1>1, InvocationsKept, PTL DEF Spec, BoardFollowsStore

(* The invocations with the desk and the board implement the Director: a    *)
(* step is one of the Director's, or leaves all it sees alone               *)
(* (brief_production.py invoke, content_director.py).                       *)
THEOREM DirectorImplemented == Spec => ImplementsDirector
<1>1. Init => Director!Init
  BY DEF Init
<1>2. InvocationInv /\ [Next]_vars => [Director!Next]_(Director!vars)
  <2> SUFFICES ASSUME InvocationInv, [Next]_vars
               PROVE  Director!Next \/ UNCHANGED directorVars
    BY DEF Director!vars, directorVars
  <2>1. CASE FetchDecision \/ PlayReviewer
    <3>1. pc = "idle" /\ IsReviewPending
      BY <2>1 DEF FetchDecision, PlayReviewer, At, InvocationInv
    <3>2. PICK decision : Submitted(decision)
      BY <2>1 DEF FetchDecision, PlayReviewer
    <3>3. Director!TakeReviewDecision
      BY <3>1, <3>2 DEF Submitted, Director!TakeReviewDecision, IsReviewPending, Review
    <3> QED
      BY <3>3 DEF Director!Next
  <2>2. CASE Resume \/ Drive \/ NoVerdict \/ ProductionFails
    BY <2>2 DEF Resume, Drive, NoVerdict, ProductionFails, Director!Next
  <2>3. CASE Crash
    BY <2>3 DEF Crash, Director!Next
  <2>4. CASE \/ Begin \/ Decide \/ PublishFirst \/ Publish \/ NothingToDecide
             \/ StoreFails \/ FetchNothing \/ NoBriefFetched \/ Sync \/ Report
             \/ NothingToPublish \/ KeepLink \/ WriteLink \/ UNCHANGED vars
    BY <2>4 DEF Begin, Decide, PublishFirst, Publish, PublishAt, NothingToDecide,
                StoreFails, FetchNothing, NoBriefFetched, Sync, Report, NothingToPublish, KeepLink,
                WriteLink, vars
  <2> QED
    BY <2>1, <2>2, <2>3, <2>4 DEF Next, TakeDecision, Produce, ShowReview
<1> QED
  BY <1>1, <1>2, InvocationsKept, PTL DEF Spec, ImplementsDirector, Director!Spec

-----------------------------------------------------------------------------
(* The folder of Docs. *)

IsSequence(s) == \E S : s \in Seq(S)

\* Appending adds one element at the end and keeps the others.
LEMMA SequenceGrows ==
  ASSUME NEW s, IsSequence(s), NEW x
  PROVE  /\ IsSequence(Append(s, x))
         /\ DOMAIN Append(s, x) = DOMAIN s \cup {Len(s) + 1}
         /\ \A i \in DOMAIN s : Append(s, x)[i] = s[i]
         /\ Append(s, x)[Len(s) + 1] = x
<1>1. PICK S : s \in Seq(S)
  BY DEF IsSequence
<1>2. s \in Seq(S \cup {x})
  BY <1>1
<1>3. Append(s, x) \in Seq(S \cup {x})
  BY <1>2
<1> QED
  BY <1>2, <1>3 DEF IsSequence

\* A Doc created where none was found is the only one of its review.
LEMMA CreatedOnce ==
  ASSUME IsSequence(docs), OneDocPerReview,
         NEW review, NEW package,
         Desk!Found(review) = {}, Desk!Created(review, package)
  PROVE  IsSequence(docs') /\ OneDocPerReview'
<1> DEFINE d == [review |-> review, package |-> package, decision |-> "pending"]
<1>1. docs' = Append(docs, d) /\ d.review = review
  BY DEF Desk!Created
<1>2. \A i \in DOMAIN docs : docs[i].review # review
  BY DEF Desk!Found
<1> HIDE DEF d
<1> QED
  BY <1>1, <1>2, SequenceGrows DEF OneDocPerReview

\* A decision typed into a Doc leaves one Doc per review.
LEMMA DecidedInPlace ==
  ASSUME IsSequence(docs), OneDocPerReview, NEW review, NEW decision,
         Desk!Decide(review, decision)
  PROVE  IsSequence(docs') /\ OneDocPerReview'
<1>1. PICK i \in DOMAIN docs : docs' = [docs EXCEPT ![i].decision = decision]
  BY DEF Desk!Decide, Desk!Found
<1>2. PICK S : docs \in Seq(S)
  BY DEF IsSequence
<1> DEFINE d == [docs[i] EXCEPT !.decision = decision]
<1>3. docs \in Seq(S \cup {d})
  BY <1>2
<1>4. docs' \in Seq(S \cup {d})
  BY <1>1, <1>3
<1>5. DOMAIN docs' = DOMAIN docs /\ \A j \in DOMAIN docs : docs'[j].review = docs[j].review
  BY <1>1
<1> QED
  BY <1>4, <1>5 DEF IsSequence, OneDocPerReview

(* However often a publication is repeated, and whatever answers are lost,  *)
(* a review has one Doc (google_docs_review_desk.py publish).               *)
THEOREM OneDocKept == Spec => []OneDocPerReview
<1> DEFINE Folder == IsSequence(docs) /\ OneDocPerReview
<1>1. Init => Folder
  <2>1. <<>> \in Seq({})
    OBVIOUS
  <2> QED
    BY <2>1 DEF Init, Desk!Init, IsSequence, OneDocPerReview
<1>2. Folder /\ [Next]_vars => Folder'
  <2> SUFFICES ASSUME Folder, [Next]_vars
               PROVE  Folder'
    OBVIOUS
  <2>1. CASE UNCHANGED docs
    BY <2>1 DEF IsSequence, OneDocPerReview
  <2>2. CASE PublishFirst \/ Publish
    <3>1. Desk!Publish(Review, Package) \/ Desk!PublishRefused(Review, Package)
      BY <2>2 DEF PublishFirst, Publish, PublishAt
    <3>2. \/ UNCHANGED docs
          \/ Desk!Found(Review) = {} /\ Desk!Created(Review, Package)
      BY <3>1 DEF Desk!Publish, Desk!PublishRefused
    <3> QED
      BY <3>2, <2>1, CreatedOnce
  <2>3. CASE Decide
    BY <2>3, DecidedInPlace DEF Decide
  <2> QED
    BY <2>1, <2>2, <2>3
       DEF Next, TakeDecision, Produce, ShowReview, Begin, NothingToDecide, StoreFails,
           FetchNothing, FetchDecision, PlayReviewer, Submitted, NoBriefFetched, Resume, Drive, NoVerdict, ProductionFails, Sync,
           Report, NothingToPublish, KeepLink, WriteLink, Crash, vars
<1> QED
  BY <1>1, <1>2, PTL DEF Spec

-----------------------------------------------------------------------------
(* The folder of Docs and the Run.  What the Director keeps, as            *)
(* DirectorProofs shows, holds here.                                       *)

LEMMA DirectorKept == Spec => []Director!OrderedInv
<1>1. Director!IInv /\ Director!StoreInOrder /\ Director!FollowsPlan => Director!OrderedInv
  BY DEF Director!OrderedInv
<1>2. Director!Spec => []Director!IInv
  BY ProductionAssumption, Director!StoreIsSound
<1>3. Director!Spec => [](Director!StoreInOrder /\ Director!FollowsPlan)
  BY ProductionAssumption, Director!StoreStaysInOrder
<1> QED
  BY <1>1, <1>2, <1>3, DirectorImplemented, PTL DEF ImplementsDirector

(* A step that stores a Run leaves the folder and the link on the page     *)
(* alone, and does not end an invocation.                                  *)
LEMMA StoringStep ==
  ASSUME InvocationInv, Next, stored' # stored
  PROVE  /\ Director!Next /\ docs' = docs /\ settled' = FALSE
         /\ phase' \in {"producing", "syncing", "publishing first"}
         /\ phase' = "syncing" => Drive \/ NoVerdict
<1> USE DEF directorVars
<1>1. CASE FetchDecision \/ PlayReviewer
  <2>1. pc = "idle" /\ IsReviewPending
    BY <1>1 DEF FetchDecision, PlayReviewer, At, InvocationInv
  <2>2. PICK decision : Submitted(decision)
    BY <1>1 DEF FetchDecision, PlayReviewer
  <2>3. Director!TakeReviewDecision
    BY <2>1, <2>2 DEF Submitted, Director!TakeReviewDecision, IsReviewPending, Review
  <2>4. phase' \in {"producing", "publishing first"}
    BY <1>1 DEF FetchDecision, PlayReviewer
  <2> QED
    BY <2>2, <2>3, <2>4 DEF Submitted, Director!Next
<1>2. CASE Drive \/ NoVerdict
  BY <1>2 DEF Drive, NoVerdict, Saved, Director!Next, At
<1>3. CASE ProductionFails \/ Crash
  BY <1>3, InterruptReturns DEF ProductionFails, Crash
<1>4. CASE Resume
  BY <1>4 DEF Resume, Director!Invoke
<1>5. CASE \/ Begin \/ Decide \/ PublishFirst \/ Publish \/ NothingToDecide
           \/ StoreFails \/ FetchNothing \/ NoBriefFetched \/ Sync \/ Report
           \/ NothingToPublish \/ KeepLink \/ WriteLink
  BY <1>5 DEF Begin, Decide, PublishFirst, Publish, PublishAt, NothingToDecide,
              StoreFails, FetchNothing, NoBriefFetched, Sync, Report, NothingToPublish, KeepLink,
              WriteLink
<1> QED
  BY <1>1, <1>2, <1>3, <1>4, <1>5 DEF Next, TakeDecision, Produce, ShowReview

(* One more Doc, for a review that has none.                               *)
DocAdded ==
  LET n == Len(docs) + 1 IN
    /\ IsReviewPending /\ Desk!Found(Review) = {}
    /\ n \in Nat \ {0} /\ n \notin DOMAIN docs /\ DOMAIN docs' = DOMAIN docs \cup {n}
    /\ \A i \in DOMAIN docs : docs'[i] = docs[i]
    /\ docs'[n].review = Review /\ docs'[n].package = Package

(* The Docs are there, for the same reviews and made from the same packages. *)
DocsStand ==
  /\ DOMAIN docs' = DOMAIN docs
  /\ \A i \in DOMAIN docs : docs'[i].review = docs[i].review /\ docs'[i].package = docs[i].package

(* This is all that becomes of the folder.                                 *)
LEMMA DocsStep ==
  ASSUME IsSequence(docs), Next
  PROVE  IsSequence(docs') /\ (DocAdded \/ DocsStand)
<1>1. CASE UNCHANGED docs
  BY <1>1 DEF DocsStand
<1>2. CASE PublishFirst \/ Publish
  <2>1. IsReviewPending /\ (Desk!Publish(Review, Package) \/ Desk!PublishRefused(Review, Package))
    BY <1>2 DEF PublishFirst, Publish, PublishAt
  <2>2. CASE UNCHANGED docs
    BY <2>2, <1>1
  <2>3. CASE Desk!Found(Review) = {} /\ Desk!Created(Review, Package)
    <3> DEFINE d == [review |-> Review, package |-> Package, decision |-> "pending"]
    <3>1. docs' = Append(docs, d) /\ d.review = Review /\ d.package = Package
      BY <2>3 DEF Desk!Created
    <3> HIDE DEF d
    <3>2. /\ IsSequence(docs') /\ DOMAIN docs' = DOMAIN docs \cup {Len(docs) + 1}
          /\ \A i \in DOMAIN docs : docs'[i] = docs[i]
          /\ docs'[Len(docs) + 1] = d
      BY <3>1, SequenceGrows
    <3>3. Len(docs) + 1 \in Nat \ {0} /\ Len(docs) + 1 \notin DOMAIN docs
      BY DEF IsSequence
    <3> QED
      BY <2>1, <2>3, <3>1, <3>2, <3>3 DEF DocAdded
  <2> QED
    BY <2>1, <2>2, <2>3 DEF Desk!Publish, Desk!PublishRefused
<1>3. CASE Decide
  <2>0. PICK decision : Desk!Decide(Review, decision)
    BY <1>3 DEF Decide
  <2>1. PICK i \in DOMAIN docs : docs' = [docs EXCEPT ![i].decision = decision]
    BY <2>0 DEF Desk!Decide, Desk!Found
  <2>2. PICK S : docs \in Seq(S)
    BY DEF IsSequence
  <2> DEFINE d == [docs[i] EXCEPT !.decision = decision]
  <2>3. docs \in Seq(S \cup {d})
    BY <2>2
  <2>4. docs' \in Seq(S \cup {d})
    BY <2>1, <2>3
  <2>5. DOMAIN docs' = DOMAIN docs
        /\ \A j \in DOMAIN docs : docs'[j].review = docs[j].review
                                    /\ docs'[j].package = docs[j].package
    BY <2>1
  <2> QED
    BY <2>4, <2>5 DEF IsSequence, DocsStand
<1> QED
  BY <1>1, <1>2, <1>3
     DEF Next, TakeDecision, Produce, ShowReview, Begin, NothingToDecide, StoreFails,
         FetchNothing, FetchDecision, PlayReviewer, Submitted, NoBriefFetched, Resume, Drive,
         NoVerdict, ProductionFails, Sync, Report, NothingToPublish, KeepLink, WriteLink, Crash

(* Every Doc is of a review of the Run, and that of the pending one is     *)
(* made from what the Run still says of it.                                *)
FolderInv ==
  /\ IsSequence(docs) /\ OneDocPerReview
  /\ \A i \in DOMAIN docs :
       stored # NoRun /\ docs[i].review \in 1..Len(stored.human_reviews)
  /\ IsReviewPending => \A i \in Desk!Found(Review) : docs[i].package = Package

(* A review that begins to be pending has no Doc yet.                      *)
LEMMA NewReview ==
  ASSUME FolderInv, InvocationInv, Director!OrderedInv, Director!OrderedInv', Next,
         stored' # stored
  PROVE  /\ docs' = docs
         /\ stored # NoRun => stored' # NoRun
         /\ \A i \in DOMAIN docs : docs[i].review \in 1..Len(stored'.human_reviews)
         /\ IsReviewPending' => \A i \in DOMAIN docs : docs[i].review # Review'
<1>1. docs' = docs /\ Director!Next
  BY StoringStep
<1>2. Director!ReviewsMove(stored, stored')
  BY <1>1, ProductionAssumption, Director!StoredReviewsMove DEF Director!OrderedInv
<1>3. PICK q : q = stored'
  OBVIOUS
<1>4. \A r : r # NoRun /\ r \in {stored, q} => Len(r.human_reviews) \in Nat
  BY <1>3 DEF Director!OrderedInv, Director!IInv, Director!IsKept, Director!Sound, Director!Run
<1>5. \A i \in DOMAIN docs : stored # NoRun /\ docs[i].review \in 1..Len(stored.human_reviews)
  BY DEF FolderInv
<1>6. stored # NoRun => /\ q # NoRun /\ Len(stored.human_reviews) <= Len(q.human_reviews)
                        /\ Director!PendingReview(q) # 0
                             => Director!PendingReview(q) > Len(stored.human_reviews)
  BY <1>2, <1>3 DEF Director!ReviewsMove
<1>7. \A i \in DOMAIN docs : docs[i].review \in 1..Len(q.human_reviews)
  BY <1>4, <1>5, <1>6
<1>8. IsReviewPending' => Director!PendingReview(q) # 0 /\ Review' = Director!PendingReview(q)
  BY <1>3 DEF IsReviewPending, Review
<1>9. IsReviewPending' => \A i \in DOMAIN docs : docs[i].review # Review'
  BY <1>4, <1>5, <1>6, <1>8
<1> QED
  BY <1>1, <1>3, <1>6, <1>7, <1>9

(* The folder keeps to the Run.                                            *)
LEMMA FolderKept == Spec => []FolderInv
<1>1. Init => FolderInv
  <2>1. Init => docs = <<>>
    BY DEF Init, Desk!Init
  <2>2. <<>> \in Seq({})
    OBVIOUS
  <2> QED
    BY <2>1, <2>2 DEF FolderInv, IsSequence, OneDocPerReview, Desk!Found
<1>2. FolderInv /\ InvocationInv /\ Director!OrderedInv /\ Director!OrderedInv' /\ [Next]_vars
        => FolderInv'
  <2> SUFFICES ASSUME FolderInv, InvocationInv, Director!OrderedInv, Director!OrderedInv',
                      [Next]_vars
               PROVE  FolderInv'
    OBVIOUS
  <2>1. CASE UNCHANGED vars
    BY <2>1 DEF vars, directorVars, FolderInv, IsSequence, OneDocPerReview, Desk!Found,
                IsReviewPending, Review, Package
  <2>2. CASE Next /\ stored' # stored
    <3>1. /\ docs' = docs
          /\ stored # NoRun => stored' # NoRun
          /\ \A i \in DOMAIN docs : docs[i].review \in 1..Len(stored'.human_reviews)
          /\ IsReviewPending' => \A i \in DOMAIN docs : docs[i].review # Review'
      BY <2>2, NewReview
    <3>2. IsSequence(docs') /\ OneDocPerReview'
      BY <3>1 DEF FolderInv, IsSequence, OneDocPerReview
    <3>3. \A i \in DOMAIN docs' : stored' # NoRun
                                    /\ docs'[i].review \in 1..Len(stored'.human_reviews)
      BY <3>1 DEF FolderInv
    <3>4. IsReviewPending' => \A i \in Desk!Found(Review)' : docs'[i].package = Package'
      BY <3>1 DEF Desk!Found
    <3> QED
      BY <3>2, <3>3, <3>4 DEF FolderInv
  <2>3. CASE Next /\ stored' = stored
    <3>1. IsSequence(docs') /\ (DocAdded \/ DocsStand)
      BY <2>3, DocsStep DEF FolderInv
    <3>2. /\ IsReviewPending' = IsReviewPending /\ Review' = Review /\ Package' = Package
      BY <2>3 DEF IsReviewPending, Review, Package
    <3>3. ASSUME IsReviewPending PROVE stored # NoRun /\ Review \in 1..Len(stored.human_reviews)
      <4>1. /\ stored # NoRun /\ Director!PendingReview(stored) # 0
            /\ Director!IsKept(stored)
        BY <3>3 DEF IsReviewPending, Review, Director!OrderedInv, Director!IInv
      <4>2. Review \in DOMAIN stored.human_reviews
        BY <4>1, ProductionAssumption, Director!PendingReviewFound DEF Review
      <4> QED
        BY <4>1, <4>2 DEF Director!IsKept, Director!Sound, Director!Run
    <3>4. CASE DocsStand
      <4>1. OneDocPerReview'
        BY <3>4 DEF DocsStand, FolderInv, OneDocPerReview
      <4>2. \A i \in DOMAIN docs' : stored' # NoRun
                                      /\ docs'[i].review \in 1..Len(stored'.human_reviews)
        BY <2>3, <3>4 DEF DocsStand, FolderInv
      <4>3. IsReviewPending' => \A i \in Desk!Found(Review)' : docs'[i].package = Package'
        BY <3>2, <3>4 DEF DocsStand, FolderInv, Desk!Found
      <4> QED
        BY <3>1, <4>1, <4>2, <4>3 DEF FolderInv
    <3>5. CASE DocAdded
      <4> DEFINE n == Len(docs) + 1
      <4>1. /\ IsReviewPending /\ n \notin DOMAIN docs /\ DOMAIN docs' = DOMAIN docs \cup {n}
            /\ \A i \in DOMAIN docs : docs'[i] = docs[i] /\ docs[i].review # Review
            /\ docs'[n].review = Review /\ docs'[n].package = Package
        BY <3>5 DEF DocAdded, Desk!Found
      <4> HIDE DEF n
      <4>2. OneDocPerReview'
        BY <4>1 DEF FolderInv, OneDocPerReview
      <4>3. \A i \in DOMAIN docs' : stored' # NoRun
                                      /\ docs'[i].review \in 1..Len(stored'.human_reviews)
        BY <2>3, <3>3, <4>1 DEF FolderInv
      <4>4. \A i \in Desk!Found(Review)' : i \in DOMAIN docs' /\ docs'[i].review = Review'
        BY DEF Desk!Found
      <4>5. \A i \in Desk!Found(Review)' : docs'[i].package = Package'
        BY <3>2, <4>1, <4>4
      <4> QED
        BY <3>1, <4>2, <4>3, <4>5 DEF FolderInv
    <3> QED
      BY <3>1, <3>4, <3>5
  <2> QED
    BY <2>1, <2>2, <2>3
<1> QED
  BY <1>1, <1>2, InvocationsKept, DirectorKept, PTL DEF Spec

(* A review has at most one Doc, and what the Run says of a pending review *)
(* never drifts from the package its Doc was made from, so that publish is *)
(* never refused for it (google_docs_review_desk.py publish, _find;        *)
(* review_publication.py pending_review_package).                          *)
THEOREM PublishedOnceKept == Spec => []PublishedOnce
<1>1. FolderInv => PublishedOnce
  <2> SUFFICES ASSUME FolderInv, IsReviewPending, Desk!Found(Review) # {}
               PROVE  Desk!IsPublished(Review, Package)
    BY DEF PublishedOnce, FolderInv
  <2>1. PICK i : i \in Desk!Found(Review)
    OBVIOUS
  <2>2. Desk!Found(Review) = {i}
    BY <2>1 DEF FolderInv, OneDocPerReview, Desk!Found
  <2> QED
    BY <2>1, <2>2 DEF FolderInv, Desk!IsPublished
<1> QED
  BY <1>1, FolderKept, PTL
-----------------------------------------------------------------------------
(* What the brief's page shows. *)

(* The page shows where the Run is, and the reporter remembers that.       *)
PageShowsRun ==
  /\ owed = NoStatus
  /\ stored # NoRun => reporter.shown = stored.status
  /\ IsReviewPending =>
       \E i \in Desk!Found(Review) : reporter.location = i /\ board.link = i

(* The reporter remembers a location of a Doc, a location it remembers is  *)
(* the one linked, and what an invocation in which nothing failed has come *)
(* past is on the page.                                                    *)
PageInv ==
  /\ reporter = [attempted |-> reporter.attempted, shown |-> reporter.shown,
                 location |-> reporter.location]
  /\ reporter.location \in {NoLocation} \cup DOMAIN docs
  /\ IsReviewPending => \A i \in Desk!Found(Review) : reporter.location = i => board.link = i
  /\ phase \in {"syncing", "publishing", "linking"} => stored # NoRun
  /\ phase = "linking" => IsReviewPending /\ Desk!Found(Review) # {}
  /\ clean /\ phase \in {"publishing", "linking"} /\ owed = NoStatus
       => reporter.shown = stored.status
  /\ clean /\ phase = "waiting" /\ IsReviewPending
       => \E i \in Desk!Found(Review) : board.link = i
  /\ settled => PageShowsRun

(* What a save does to what the reporter remembers.                        *)
LEMMA SaveReports ==
  ASSUME PageInv, NEW status, Reporter!Save(status)
  PROVE  /\ board' = board /\ reporter'.location = reporter.location
         /\ reporter' = [attempted |-> reporter'.attempted, shown |-> reporter'.shown,
                         location |-> reporter'.location]
<1>1. reporter = [attempted |-> reporter.attempted, shown |-> reporter.shown,
                  location |-> reporter.location]
  BY DEF PageInv
<1> QED
  BY <1>1 DEF Reporter!Save, Reporter!unchanged, Reporter!BeginReport

\* What a step that stores a Run leaves of the board and the report.
LEMMA StoringReports ==
  ASSUME PageInv, Next, stored' # stored
  PROVE  /\ board' = board /\ reporter'.location = reporter.location
         /\ reporter' = [attempted |-> reporter'.attempted, shown |-> reporter'.shown,
                         location |-> reporter'.location]
<1> USE DEF directorVars
<1>1. CASE FetchDecision \/ PlayReviewer \/ Drive \/ NoVerdict
  BY <1>1, SaveReports DEF FetchDecision, PlayReviewer, Submitted, Drive, NoVerdict, Saved
<1>2. CASE ProductionFails \/ Crash
  BY <1>2, InterruptReturns DEF ProductionFails, Crash
<1>3. CASE Resume
  BY <1>3 DEF Resume, Director!Invoke
<1>4. CASE \/ Begin \/ Decide \/ PublishFirst \/ Publish \/ NothingToDecide
           \/ StoreFails \/ FetchNothing \/ NoBriefFetched \/ Sync \/ Report
           \/ NothingToPublish \/ KeepLink \/ WriteLink
  BY <1>4 DEF Begin, Decide, PublishFirst, Publish, PublishAt, NothingToDecide,
              StoreFails, FetchNothing, NoBriefFetched, Sync, Report, NothingToPublish, KeepLink,
              WriteLink
<1> QED
  BY <1>1, <1>2, <1>3, <1>4 DEF Next, TakeDecision, Produce, ShowReview

\* A sync does not write to the board by itself.
LEMMA SyncKeepsBoard == Sync => board' = board
  BY DEF Sync, Reporter!Sync, Reporter!unchanged, Reporter!BeginReport

\* A creation adds a Doc.
LEMMA CreatedAdds ==
  ASSUME IsSequence(docs), NEW review, NEW package, Desk!Created(review, package)
  PROVE  DOMAIN docs' # DOMAIN docs
<1>1. PICK S : docs \in Seq(S)
  BY DEF IsSequence
<1> DEFINE d == [review |-> review, package |-> package, decision |-> "pending"]
<1>2. docs' = Append(docs, d)
  BY DEF Desk!Created
<1> HIDE DEF d
<1>3. DOMAIN docs' = DOMAIN docs \cup {Len(docs) + 1}
  BY <1>2, SequenceGrows
<1>4. Len(docs) + 1 \notin DOMAIN docs
  BY <1>1
<1> QED
  BY <1>3, <1>4

(* The Docs of a review are one, at its location.                          *)
LEMMA FoundOne ==
  ASSUME OneDocPerReview, NEW i \in Desk!Found(Review)
  PROVE  i = Desk!Location(Review) /\ i \in DOMAIN docs
<1>1. Desk!Location(Review) \in Desk!Found(Review)
  BY DEF Desk!Location
<1> QED
  BY <1>1 DEF Desk!Found, OneDocPerReview

\* A review that has a Doc is located at one of them.
LEMMA LocationFound ==
  ASSUME Desk!Found(Review) # {}
  PROVE  Desk!Location(Review) \in Desk!Found(Review)
BY DEF Desk!Location

(* A step that stores a Run.                                               *)
LEMMA PageKeptByStore ==
  ASSUME PageInv, FolderInv, InvocationInv, Director!OrderedInv, Director!OrderedInv', Next,
         stored' # stored
  PROVE  PageInv'
<1>1. /\ Director!Next /\ docs' = docs /\ settled' = FALSE
      /\ phase' \in {"producing", "syncing", "publishing first"}
      /\ phase' = "syncing" => Drive \/ NoVerdict
  BY StoringStep
<1>2. /\ \A i \in DOMAIN docs : docs[i].review \in 1..Len(stored'.human_reviews)
      /\ IsReviewPending' => \A i \in DOMAIN docs : docs[i].review # Review'
  BY NewReview
<1>3. IsReviewPending' => Desk!Found(Review)' = {}
  BY <1>1, <1>2 DEF Desk!Found
<1>4. /\ board' = board /\ reporter'.location \in {NoLocation, reporter.location}
      /\ reporter' = [attempted |-> reporter'.attempted, shown |-> reporter'.shown,
                      location |-> reporter'.location]
  BY StoringReports
<1>5. phase' = "syncing" => stored' # NoRun
  <2>1. ASSUME Drive \/ NoVerdict, phase' = "syncing"
        PROVE  (Director!Advance \/ Director!EvaluatorFails) /\ pc' = "idle"
    BY <2>1, EvaluatorStops DEF Drive, NoVerdict, At
  <2> QED
    BY <1>1, <2>1, ProductionAssumption, Director!EndsStored DEF Director!OrderedInv
<1> QED
  BY <1>1, <1>3, <1>4, <1>5 DEF PageInv

(* A step that stores nothing.                                             *)
LEMMA PageKeptByRest ==
  ASSUME PageInv, FolderInv, InvocationInv, Director!OrderedInv, Next, stored' = stored
  PROVE  PageInv'
<1> USE DEF At, Goto, GoOnAt, Return, Raise, Reporter!IsIdle, directorVars, reporterVars
<1>1. IsReviewPending' = IsReviewPending /\ Review' = Review
  BY DEF IsReviewPending, Review
<1>2. ASSUME DOMAIN docs' = DOMAIN docs, \A i \in DOMAIN docs : docs'[i].review = docs[i].review
      PROVE  Desk!Found(Review)' = Desk!Found(Review)
  BY <1>1, <1>2 DEF Desk!Found
<1>3. UNCHANGED docs => Desk!Found(Review)' = Desk!Found(Review)
  BY <1>2
<1>4. stored # NoRun => stored.status # NoStatus
  BY ProductionAssumption
     DEF Director!OrderedInv, Director!IInv, Director!IsKept, Director!Sound, Director!Run
<1>5. \A i \in Desk!Found(Review) : i = Desk!Location(Review) /\ i \in DOMAIN docs
  BY FoundOne DEF FolderInv
<1>6. CASE Begin \/ NothingToDecide \/ StoreFails \/ FetchNothing \/ NoBriefFetched
  <2>1. /\ UNCHANGED <<board, reporter, owed, docs>>
        /\ \/ phase' \in {"producing", "publishing first", "fetching"} /\ settled' = settled
           \/ phase' = "waiting" /\ clean' = FALSE /\ settled' = settled
           \/ phase' = "waiting" /\ owed = NoStatus /\ stored = NoRun
    <3>1. CASE Begin \/ NothingToDecide
      BY <3>1 DEF Begin, NothingToDecide
    <3>2. CASE StoreFails
      BY <3>2 DEF StoreFails
    <3>3. CASE FetchNothing
      BY <3>3 DEF FetchNothing
    <3>4. CASE NoBriefFetched
      BY <3>4 DEF NoBriefFetched
    <3> QED
      BY <1>6, <3>1, <3>2, <3>3, <3>4
  <2>2. stored = NoRun => ~IsReviewPending
    BY DEF IsReviewPending
  <2>3. CASE phase' \in {"producing", "publishing first", "fetching"} /\ settled' = settled
    BY <1>1, <1>3, <2>1, <2>3 DEF PageInv, PageShowsRun
  <2>4. CASE phase' = "waiting" /\ clean' = FALSE /\ settled' = settled
    BY <1>1, <1>3, <2>1, <2>4 DEF PageInv, PageShowsRun
  <2>5. CASE phase' = "waiting" /\ owed = NoStatus /\ stored = NoRun
    BY <1>1, <1>3, <2>1, <2>2, <2>5 DEF PageInv, PageShowsRun
  <2> QED
    BY <2>1, <2>3, <2>4, <2>5
<1>7. CASE Resume \/ ProductionFails
  BY <1>1, <1>3, <1>7 DEF PageInv, PageShowsRun, Resume, ProductionFails
<1>8. CASE FetchDecision \/ PlayReviewer
  <2>1. PICK decision : Submitted(decision)
    BY <1>8, ZenonT(40) DEF FetchDecision, PlayReviewer
  <2>2. /\ board' = board /\ reporter'.location = reporter.location
        /\ reporter' = [attempted |-> reporter'.attempted, shown |-> reporter'.shown,
                        location |-> reporter'.location]
        /\ docs' = docs /\ settled' = FALSE
    BY <2>1, SaveReports DEF Submitted
  <2>3. phase' \in {"producing", "publishing first"}
    BY <1>8 DEF FetchDecision, PlayReviewer
  <2> QED
    BY <1>1, <1>3, <2>2, <2>3 DEF PageInv
<1>9. CASE Drive
  <2>1. /\ UNCHANGED <<board, reporter, owed, docs, settled>>
        /\ phase = "producing"
        /\ phase' \in {"producing", "syncing"}
        /\ Director!Advance
        /\ phase' = "syncing" => pc' = "idle"
    BY <1>9 DEF Drive, Saved, Reporter!unchanged
  <2>2. phase' = "syncing" => stored' # NoRun
    BY <2>1, ProductionAssumption, Director!EndsStored DEF Director!OrderedInv
  <2> QED
    BY <1>1, <1>3, <2>1, <2>2 DEF PageInv, PageShowsRun
<1>18. CASE NoVerdict
  <2>1. /\ docs' = docs /\ settled' = FALSE /\ clean' = FALSE /\ phase' = "syncing"
        /\ Director!EvaluatorFails /\ Reporter!Save(stored'.status)
    BY <1>18 DEF NoVerdict
  <2>2. stored' # NoRun
    BY <2>1, EvaluatorStops, ProductionAssumption, Director!EndsStored DEF Director!OrderedInv
  <2>3. /\ board' = board /\ reporter'.location = reporter.location
        /\ reporter' = [attempted |-> reporter'.attempted, shown |-> reporter'.shown,
                        location |-> reporter'.location]
    BY <2>1, SaveReports
  <2> QED
    BY <1>1, <1>3, <2>1, <2>2, <2>3 DEF PageInv
<1>10. CASE Sync
  <2>1. /\ docs' = docs /\ board' = board /\ phase = "syncing" /\ phase' = "publishing"
        /\ owed = NoStatus /\ UNCHANGED <<clean, settled>>
    BY <1>10, SyncKeepsBoard DEF Sync
  <2>2. CASE reporter.shown = stored.status
    BY <1>1, <1>3, <1>10, <2>1, <2>2
       DEF Sync, Reporter!Sync, Reporter!unchanged, PageInv, PageShowsRun
  <2>3. CASE reporter.shown # stored.status
    <3>1. /\ owed' = stored.status
          /\ reporter' = [reporter EXCEPT !.attempted = stored.status]
      BY <1>10, <2>3 DEF Sync, Reporter!Sync, Reporter!BeginReport
    <3>2. /\ reporter'.location = reporter.location
          /\ reporter' = [attempted |-> reporter'.attempted, shown |-> reporter'.shown,
                          location |-> reporter'.location]
      BY <3>1 DEF PageInv
    <3>3. stored # NoRun /\ ~settled
      BY <2>1, <2>3 DEF PageInv, PageShowsRun
    <3> QED
      BY <1>1, <1>3, <1>4, <2>1, <3>1, <3>2, <3>3 DEF PageInv
  <2> QED
    BY <2>2, <2>3
<1>11. CASE Report
  <2>1. /\ owed # NoStatus /\ owed = stored.status /\ owed' = NoStatus /\ ~settled
        /\ UNCHANGED <<docs, phase, settled>>
    BY <1>11 DEF Report, Reporter!ReportShown, Reporter!ReportRefused, InvocationInv, PageInv,
                 PageShowsRun
  <2>2. /\ board'.link = board.link /\ reporter'.location = reporter.location
        /\ reporter' = [attempted |-> reporter'.attempted, shown |-> reporter'.shown,
                        location |-> reporter'.location]
        /\ clean' => clean /\ reporter'.shown = owed
    BY <1>11 DEF Report, Reporter!ReportShown, Reporter!ReportRefused, InvocationInv, PageInv
  <2> QED
    BY <1>1, <1>3, <2>1, <2>2 DEF PageInv
<1>12. CASE NothingToPublish
  BY <1>1, <1>3, <1>12 DEF NothingToPublish, PageInv, PageShowsRun
<1>13. CASE KeepLink
  <2>1. /\ phase = "linking" /\ IsReviewPending /\ owed = NoStatus
        /\ reporter.location = Desk!Location(Review)
    BY <1>13 DEF KeepLink, Reporter!IsShown, PageInv
  <2>2. Desk!Location(Review) \in Desk!Found(Review)
    BY <2>1, LocationFound DEF PageInv
  <2>3. board.link = Desk!Location(Review)
    BY <2>1, <2>2 DEF PageInv
  <2> QED
    BY <1>1, <1>3, <1>13, <2>1, <2>2, <2>3 DEF KeepLink, PageInv, PageShowsRun
<1>14. CASE WriteLink
  <2>1. /\ phase = "linking" /\ IsReviewPending /\ owed = NoStatus /\ stored # NoRun
        /\ reporter.location # Desk!Location(Review) /\ owed' = owed /\ docs' = docs
        /\ phase' = "waiting"
    BY <1>14 DEF WriteLink, Reporter!IsShown, PageInv, Reporter!LocationShown,
                 Reporter!LocationRefused
  <2>2. Desk!Location(Review) \in Desk!Found(Review) /\ Desk!Location(Review) \in DOMAIN docs
    BY <1>5, <2>1, LocationFound DEF PageInv
  <2>3. ~settled
    BY <1>5, <2>1 DEF PageInv, PageShowsRun
  <2>4. CASE Reporter!LocationShown(Desk!Location(Review)) /\ Return
    <3>1. /\ board'.link = Desk!Location(Review)
          /\ reporter'.location = Desk!Location(Review) /\ reporter'.shown = reporter.shown
          /\ reporter' = [attempted |-> reporter'.attempted, shown |-> reporter'.shown,
                          location |-> reporter'.location]
      BY <2>4 DEF Reporter!LocationShown, InvocationInv, PageInv
    <3>2. (settled' => clean) /\ clean' = clean
      BY <2>3, <2>4
    <3>3. clean => reporter'.shown = stored.status
      BY <2>1, <3>1 DEF PageInv
    <3> QED
      BY <1>1, <1>3, <1>5, <2>1, <2>2, <3>1, <3>2, <3>3 DEF PageInv, PageShowsRun
  <2>5. CASE Reporter!LocationRefused(Desk!Location(Review)) /\ GoOnAt("waiting")
    BY <1>1, <1>3, <1>5, <2>1, <2>3, <2>5 DEF Reporter!LocationRefused, PageInv
  <2> QED
    BY <1>14, <2>4, <2>5 DEF WriteLink
<1>15. CASE Crash
  <2>1. /\ board' = board /\ docs' = docs /\ reporter' = Reporter!Fresh
        /\ phase' = "waiting" /\ clean' = FALSE /\ settled' = FALSE
    BY <1>15 DEF Crash, Reporter!Restart
  <2>2. \A i \in Desk!Found(Review) : i # NoLocation
    BY DEF FolderInv, IsSequence, Desk!Found, NoLocation
  <2> QED
    BY <1>1, <1>3, <2>1, <2>2 DEF Reporter!Fresh, PageInv
<1>16. CASE Decide
  <2>1. /\ UNCHANGED <<board, reporter, owed, phase, clean, settled>>
        /\ Desk!Found(Review)' = Desk!Found(Review) /\ DOMAIN docs' = DOMAIN docs
    <3>1. IsSequence(docs') /\ (DocAdded \/ DocsStand)
      BY DocsStep DEF FolderInv
    <3>2. Desk!Found(Review) # {}
      BY <1>16 DEF Decide, Desk!Decide
    <3>3. DocsStand
      BY <3>1, <3>2 DEF DocAdded
    <3> QED
      BY <1>2, <1>16, <3>3 DEF Decide, DocsStand
  <2> QED
    BY <1>1, <2>1 DEF PageInv, PageShowsRun
<1>17. CASE PublishFirst \/ Publish
  <2>1. /\ UNCHANGED <<board, reporter, owed, settled>> /\ IsReviewPending /\ owed = NoStatus
        /\ stored # NoRun
    BY <1>17 DEF PublishFirst, Publish, PublishAt, IsReviewPending
  <2>2. \/ phase' \in {"fetching", "producing"} /\ clean' = clean
        \/ phase' \in {"producing", "waiting"} /\ clean' = FALSE
        \/ phase = "publishing" /\ phase' = "linking" /\ clean' = clean
             /\ Desk!Publish(Review, Package)
    BY <1>17 DEF PublishFirst, Publish, PublishAt
  <2>3. IsSequence(docs') /\ (DocAdded \/ DocsStand)
    BY DocsStep DEF FolderInv
  <2>4. CASE DocsStand
    <3>1. Desk!Found(Review)' = Desk!Found(Review) /\ DOMAIN docs' = DOMAIN docs
      BY <1>2, <2>4 DEF DocsStand
    <3>2. Desk!Publish(Review, Package) => Desk!Found(Review)' # {}
      <4>1. CASE Desk!IsPublished(Review, Package)
        BY <3>1, <4>1 DEF Desk!IsPublished
      <4>2. CASE Desk!Found(Review) = {} /\ Desk!Created(Review, Package)
        <5>1. DOMAIN docs' # DOMAIN docs
          BY <2>1, <4>2, CreatedAdds DEF FolderInv
        <5> QED
          BY <3>1, <5>1
      <4> QED
        BY <4>1, <4>2 DEF Desk!Publish
    <3> QED
      BY <1>1, <2>1, <2>2, <3>1, <3>2 DEF PageInv, PageShowsRun
  <2>5. CASE DocAdded
    <3> DEFINE n == Len(docs) + 1
    <3>1. /\ n \notin DOMAIN docs /\ n # NoLocation /\ Desk!Found(Review) = {}
          /\ DOMAIN docs' = DOMAIN docs \cup {n}
          /\ \A i \in DOMAIN docs : docs'[i] = docs[i]
          /\ docs'[n].review = Review
      BY <2>5 DEF DocAdded, NoLocation
    <3> HIDE DEF n
    <3>2. Desk!Found(Review)' = {n}
      BY <1>1, <3>1 DEF Desk!Found
    <3>3. reporter.location # n
      BY <3>1 DEF PageInv
    <3>4. ~settled
      BY <2>1, <3>1 DEF PageInv, PageShowsRun
    <3> QED
      BY <1>1, <2>1, <2>2, <3>1, <3>2, <3>3, <3>4 DEF PageInv
  <2> QED
    BY <2>3, <2>4, <2>5
<1> QED
  BY <1>6, <1>7, <1>8, <1>9, <1>10, <1>11, <1>12, <1>13, <1>14, <1>15, <1>16, <1>17,
     <1>18
     DEF Next, TakeDecision, Produce, ShowReview

(* The page keeps to the Run.                                              *)
LEMMA PageKept == Spec => []PageInv
<1>1. Init => PageInv
  <2>1. ASSUME Init
        PROVE  /\ docs = <<>> /\ phase = "waiting" /\ clean = FALSE /\ settled = FALSE
               /\ reporter = Reporter!Fresh /\ NoLocation \in {NoLocation} \cup DOMAIN docs
    BY <2>1 DEF Init, Desk!Init, Reporter!Init
  <2> QED
    BY <2>1 DEF PageInv, Reporter!Fresh, Desk!Found
<1>2. PageInv /\ FolderInv /\ InvocationInv /\ Director!OrderedInv /\ Director!OrderedInv'
        /\ [Next]_vars
        => PageInv'
  <2> SUFFICES ASSUME PageInv, FolderInv, InvocationInv, Director!OrderedInv,
                      Director!OrderedInv', [Next]_vars
               PROVE  PageInv'
    OBVIOUS
  <2>1. CASE UNCHANGED vars
    BY <2>1 DEF vars, directorVars, reporterVars, PageInv, PageShowsRun, Desk!Found,
                IsReviewPending, Review
  <2>2. CASE Next /\ stored' # stored
    BY <2>2, PageKeptByStore
  <2>3. CASE Next /\ stored' = stored
    BY <2>3, PageKeptByRest
  <2> QED
    BY <2>1, <2>2, <2>3
<1> QED
  BY <1>1, <1>2, FolderKept, InvocationsKept, DirectorKept, PTL DEF Spec

(* After an invocation in which nothing failed the brief links to the      *)
(* pending review, whatever earlier links were written or refused          *)
(* (brief_status.py show_review_location).                                 *)
THEOREM LinkKept == Spec => []LinkIsCurrent
<1>1. PageInv /\ FolderInv => LinkIsCurrent
  BY FoundOne DEF PageInv, FolderInv, LinkIsCurrent
<1> QED
  BY <1>1, PageKept, FolderKept, PTL

(* What an invocation leaves settled, later ones leave alone: nothing is   *)
(* written to the page, and nothing about to be (brief_status.py).         *)
THEOREM QuietKept == Spec => QuietWhenSettled
<1>1. PageInv /\ PageInv' /\ FolderInv /\ [Next]_vars
        => [settled /\ settled' => Reporter!IsIdle' /\ board' = board]_vars
  <2> SUFFICES ASSUME PageInv, PageInv', FolderInv, Next, settled, settled'
               PROVE  Reporter!IsIdle' /\ board' = board
    OBVIOUS
  <2>1. owed = NoStatus /\ owed' = NoStatus
    BY DEF PageInv, PageShowsRun
  <2> SUFFICES board' = board
    BY <2>1 DEF Reporter!IsIdle
  <2> USE DEF reporterVars
  <2>2. CASE FetchDecision \/ PlayReviewer \/ Drive \/ NoVerdict \/ Sync
    BY <2>2, SaveKeepsBoard, SavedKeepsBoard, SyncKeepsBoard
       DEF FetchDecision, PlayReviewer, Submitted, Drive, NoVerdict
  <2>3. ~Report
    BY <2>1 DEF Report, Reporter!ReportShown, Reporter!ReportRefused
  <2>4. ~WriteLink
    <3>1. ASSUME WriteLink
          PROVE  IsReviewPending /\ reporter.location # Desk!Location(Review)
      BY <3>1 DEF WriteLink, At, Reporter!IsShown, PageInv
    <3> QED
      BY <3>1, FoundOne DEF PageInv, PageShowsRun, FolderInv
  <2>5. CASE \/ Begin \/ Decide \/ PublishFirst \/ Publish \/ NothingToDecide
             \/ StoreFails \/ FetchNothing \/ NoBriefFetched \/ Resume \/ ProductionFails
             \/ NothingToPublish \/ KeepLink \/ Crash
    BY <2>5 DEF Begin, Decide, PublishFirst, Publish, PublishAt, NothingToDecide, StoreFails,
                FetchNothing, NoBriefFetched, Resume, ProductionFails, NothingToPublish, KeepLink,
                Crash, Reporter!Restart
  <2> QED
    BY <2>1, <2>2, <2>3, <2>4, <2>5
       DEF Next, TakeDecision, Produce, ShowReview
<1> QED
  BY <1>1, PageKept, FolderKept, PTL DEF Spec, QuietWhenSettled
=============================================================================
