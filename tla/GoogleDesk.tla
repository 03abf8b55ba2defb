------------------------------ MODULE GoogleDesk ------------------------------
(***************************************************************************)
(* How the review desk is kept in a Google Drive folder                    *)
(* (infrastructure/google_docs_review_desk.py): each operation is a        *)
(* sequence of requests, each request needs an access token, and between   *)
(* any two of them the folder, the Docs, the tokens and the clock change.  *)
(*                                                                         *)
(* One thread calls the desk, the worker of the service.  A Doc's text is  *)
(* a sequence of lines, of which only what read_decision tells apart is    *)
(* kept: the marker a line starts with and what follows it.                *)
(***************************************************************************)
EXTENDS Integers, Sequences, FiniteSets

CONSTANTS
  Reviews, Packages,
  Material,     \* the lines render_review puts below the separator, by package
  Decisions,    \* the words that are recognised
  Undecided,
  Blocks,       \* what a reviewer may leave above that material
  NoReview, NoPackage, NoRequest, NoToken,
  MaxDocs       \* bound: Docs created, landed or not

VARIABLES
  docs,      \* the folder and its trash, in the order of creation
  late,      \* creations that were given up and may take effect yet
  at,        \* where the running operation is
  request,   \* what it is about
  doc,       \* the Doc it has found
  signed,    \* it has just been given a token
  token,     \* _token: fresh while the clock is before its end
  read,      \* history: Docs a decision was answered from
  raced      \* history: a Doc landed since publish found none

local == <<at, request, doc, signed>>
vars == <<docs, late, local, token, read, raced>>

Line == [mark : {"decision", "reason", "separator", "none"},
         text : Decisions \cup {"blank", "else"}]
Request == [review : Reviews, package : Packages \cup {NoPackage}]
Creation == [review : Reviews, package : Packages]
Doc == [review : Reviews, package : Packages, block : Seq(Line), live : BOOLEAN]
Token == [fresh : BOOLEAN, honoured : BOOLEAN]
Place == {"idle", "finding", "creating", "exporting"}

DeskAssumption ==
  /\ Material \in [Packages -> Seq(Line)] /\ Blocks \subseteq Seq(Line)
  /\ {Undecided, "blank"} \cap Decisions = {} /\ NoReview \notin Reviews /\ NoPackage \notin Packages
  /\ NoToken \notin Token
  /\ MaxDocs \in Nat
ASSUME DeskAssumption

-----------------------------------------------------------------------------
(* The Doc's text: render_review and read_decision. *)

Marker(mark) == [mark |-> mark, text |-> "blank"]

\* The instructions and the three lines that must stay.
Untouched == <<Marker("none"), Marker("decision"), Marker("reason"), Marker("separator")>>

First(positions) == CHOOSE k \in positions : \A m \in positions : k <= m
IsSingle(positions) == \E k \in positions : positions = {k}

Separators(lines) == {k \in DOMAIN lines : lines[k].mark = "separator"}

\* Mutant: the block reaches to the last separator.
LongestBlock(lines) ==
  1..((CHOOSE k \in Separators(lines) : \A m \in Separators(lines) : m <= k) - 1)

Block(lines) == 1..(First(Separators(lines)) - 1)

\* _marker_line, where it is single.
Marked(lines, mark) == {k \in Block(lines) : lines[k].mark = mark}

\* What is not readable is damaged, and a ReviewDeskError.
IsReadable(lines) ==
  /\ Separators(lines) # {}
  /\ IsSingle(Marked(lines, "decision")) /\ IsSingle(Marked(lines, "reason"))
  /\ First(Marked(lines, "decision")) < First(Marked(lines, "reason"))

Word(lines) == lines[First(Marked(lines, "decision"))].text
IsDecided(lines) == IsReadable(lines) /\ Word(lines) \in Decisions

\* The reason goes from its marker to the separator.
ReasonLines(lines) == {k \in Block(lines) : k >= First(Marked(lines, "reason"))}

Text(i) == docs[i].block \o Material[docs[i].package]

-----------------------------------------------------------------------------
(* The folder. *)

\* What the query lists: not trashed, of this review.
Found(review) == {i \in DOMAIN docs : docs[i].live /\ docs[i].review = review}

IsRoom == Len(docs) + Cardinality(late) < MaxDocs

Created(r) ==
  docs' = Append(docs, [review |-> r.review, package |-> r.package,
                        block |-> Untouched, live |-> TRUE])

-----------------------------------------------------------------------------
(* publish and fetch_decision, request by request. *)

Init ==
  /\ docs = <<>> /\ late = {} /\ read = {} /\ raced = FALSE
  /\ at = "idle" /\ request = NoRequest /\ doc = 0
  /\ signed = FALSE /\ token = NoToken

Begin(review, package) ==
  /\ at = "idle" /\ at' = "finding"
  /\ request' = [review |-> review, package |-> package]
  /\ UNCHANGED <<docs, late, doc, signed, token, read, raced>>

IsRunning == at # "idle"

\* The operation answers, or raises.
Over ==
  at' = "idle" /\ request' = NoRequest /\ doc' = 0 /\ signed' = FALSE /\ raced' = FALSE

\* The next request is another one.
Proceed(place, found) ==
  at' = place /\ doc' = found /\ signed' = FALSE /\ UNCHANGED <<request, raced>>

HasFreshToken == token # NoToken /\ token.fresh

\* _access_token: a token may be granted for no longer than the margin.
SignIn ==
  /\ IsRunning /\ ~signed /\ ~HasFreshToken
  /\ signed' = TRUE
  /\ token' \in {t \in Token : t.honoured}
  /\ UNCHANGED <<docs, late, at, request, doc, read, raced>>

CanSend == IsRunning /\ (signed \/ HasFreshToken)
IsSent(place) == at = place /\ CanSend /\ token.honoured

\* Mutant: the token that was refused is kept.
UnauthorizedKept ==
  CanSend /\ ~token.honoured /\ Over /\ UNCHANGED <<docs, late, token, read>>

\* HTTP 401.
Unauthorized ==
  CanSend /\ ~token.honoured /\ token' = NoToken /\ Over /\ UNCHANGED <<docs, late, read>>

\* No sign-in, no connection, another status, an answer of another shape.
CallFails == IsRunning /\ Over /\ UNCHANGED <<docs, late, token, read>>

\* Mutant: the first Doc of the listing is taken.
FindAny ==
  /\ IsSent("finding") /\ request.package = NoPackage
  /\ \E i \in Found(request.review) : Proceed("exporting", i)
  /\ UNCHANGED <<docs, late, token, read>>

\* fetch_decision has found its Doc, which is the only one.
FindDoc ==
  /\ IsSent("finding") /\ request.package = NoPackage
  /\ \E i \in Found(request.review) : Found(request.review) = {i} /\ Proceed("exporting", i)
  /\ UNCHANGED <<docs, late, token, read>>

\* Mutant: publish creates a Doc when it finds another package's, too.
FindNotMine ==
  /\ IsSent("finding") /\ request.package # NoPackage
  /\ \A i \in Found(request.review) : docs[i].package # request.package
  /\ Proceed("creating", 0) /\ UNCHANGED <<docs, late, token, read>>

\* publish has found none.
FindNone ==
  /\ IsSent("finding") /\ request.package # NoPackage
  /\ Found(request.review) = {}
  /\ Proceed("creating", 0) /\ UNCHANGED <<docs, late, token, read>>

\* The operation ends with what was found: publish answers if it is the one
\* Doc of its package, and all else is a ReviewDeskError - several Docs,
\* another package's, or none to fetch from.
FindEnds ==
  /\ IsSent("finding")
  /\ IF request.package = NoPackage THEN ~IsSingle(Found(request.review))
     ELSE Found(request.review) # {}
  /\ Over /\ UNCHANGED <<docs, late, token, read>>

\* Answered, or its answer lost.
Create ==
  /\ IsSent("creating") /\ IsRoom
  /\ Created(request) /\ Over /\ UNCHANGED <<late, token, read>>

\* It timed out on its way.
CreateGivenUp ==
  /\ IsSent("creating") /\ IsRoom
  /\ late' = late \cup {request} /\ Over /\ UNCHANGED <<docs, token, read>>

\* A decision, None or a ReviewDeskError, by the Doc's text.
Export ==
  /\ IsSent("exporting")
  /\ read' = IF IsDecided(Text(doc)) THEN read \cup {doc} ELSE read
  /\ Over /\ UNCHANGED <<docs, late, token>>

Call ==
  \/ SignIn \/ Unauthorized \/ CallFails
  \/ FindDoc \/ FindNone \/ FindEnds \/ Create \/ CreateGivenUp \/ Export

-----------------------------------------------------------------------------
(* What others do meanwhile. *)

Land(r) ==
  /\ r \in late /\ late' = late \ {r}
  /\ raced' = (raced \/ (at = "creating" /\ request.review = r.review))
  /\ Created(r) /\ UNCHANGED <<local, token, read>>

\* The reviewer types, and may damage the block or mend it.
Edit(i, block) ==
  /\ docs[i].live /\ docs[i].block # block
  /\ docs' = [docs EXCEPT ![i].block = block]
  /\ UNCHANGED <<late, local, token, read, raced>>

\* Somebody removes a Doc for good.
Trash(i) ==
  /\ docs[i].live /\ docs' = [docs EXCEPT ![i].live = FALSE] /\ UNCHANGED <<late, local, token, read, raced>>

\* Google stops honouring the token.
Revoke ==
  /\ token # NoToken /\ token.honoured /\ token' = [token EXCEPT !.honoured = FALSE]
  /\ UNCHANGED <<docs, late, local, read, raced>>

\* The clock passes the token's end, or steps back before it.
ClockMoves ==
  /\ token # NoToken /\ token' = [token EXCEPT !.fresh = ~@]
  /\ UNCHANGED <<docs, late, local, read, raced>>

Others ==
  \/ \E r \in late : Land(r)
  \/ \E i \in DOMAIN docs : Trash(i) \/ \E block \in Blocks : Edit(i, block)
  \/ Revoke \/ ClockMoves

Next ==
  \/ \E review \in Reviews, package \in Packages \cup {NoPackage} : Begin(review, package)
  \/ Call \/ Others

Spec == Init /\ [][Next]_vars

(* A review that waits is asked about again and again (the sweep), every   *)
(* call ends - it has a timeout - and a request that is made again and     *)
(* again reaches Google at some time.  Tokens are refused before their end *)
(* any number of times, not for ever.                                      *)
Asking(place, A) == A /\ at = place /\ request.package = NoPackage
Fairness ==
  /\ WF_vars(Call) /\ \A review \in Reviews : SF_vars(Begin(review, NoPackage))
  /\ \A place \in {"finding", "exporting"} :
       SF_vars(Asking(place, SignIn)) /\ SF_vars(Asking(place, Unauthorized))
  /\ SF_vars(FindDoc) /\ SF_vars(Export)
  /\ <>[][~Revoke]_vars

FairSpec == Spec /\ Fairness

-----------------------------------------------------------------------------

(* The folder, the operation and the token keep their shapes.              *)
FolderOK ==
  /\ docs \in Seq(Doc) /\ late \in SUBSET Creation
  /\ read \in SUBSET DOMAIN docs /\ raced \in BOOLEAN
OperationOK ==
  /\ at \in Place
  /\ IF at = "idle" THEN request = NoRequest ELSE request \in Request
  /\ at = "creating" => request \in Creation
  /\ doc \in Nat /\ (at = "exporting" => doc \in DOMAIN docs)
TokenOK ==
  /\ signed \in BOOLEAN /\ token \in Token \cup {NoToken} /\ (signed => token # NoToken)
TypeOK == FolderOK /\ OperationOK /\ TokenOK

(* Duplicates are surfaced, never guessed between: however a second Doc of *)
(* a review came to be - a creation given up that landed all the same -    *)
(* decisions are not taken from both, unless somebody removed one of them  *)
(* (google_docs_review_desk.py _find; docs/adr/0043).                      *)
OneVoice ==
  \A i, j \in read :
    i # j /\ docs[i].review = docs[j].review => ~docs[i].live \/ ~docs[j].live

(* The material never decides, whatever it quotes: as long as the reviewer *)
(* has left one of the three marked lines, a decision that is read stands  *)
(* on a decision line of theirs, however many lines they removed, repeated *)
(* or moved; and as long as they left the separator, no line of the        *)
(* material gets into the reason (google_docs_review_desk.py               *)
(* read_decision).                                                         *)
OnlyTheReviewerDecides ==
  \A i \in DOMAIN docs :
    LET block == docs[i].block IN
      IsDecided(Text(i)) /\ (\E k \in DOMAIN block : block[k].mark # "none") =>
        /\ \E k \in DOMAIN block :
             block[k].mark = "decision" /\ block[k].text = Word(Text(i))
        /\ Separators(block) # {} => ReasonLines(Text(i)) \subseteq DOMAIN block

(* The abstract desk the rest of the system is modelled with: the Docs,    *)
(* with what can be read in them; one in the trash is found by no review.  *)
Shown(i) ==
  [review |-> IF docs[i].live THEN docs[i].review ELSE NoReview,
   package |-> docs[i].package,
   decision |-> IF IsDecided(Text(i)) THEN Word(Text(i)) ELSE Undecided]
Folder == [i \in DOMAIN docs |-> Shown(i)]
Desk == INSTANCE ReviewDesk WITH docs <- Folder

DeskStep ==
  \E review \in Reviews :
    \/ \E decision \in Decisions \cup {Undecided} : Desk!Decide(review, decision)
    \/ \E package \in Packages :
         Desk!Publish(review, package) \/ Desk!PublishRefused(review, package)

(* Request by request, the desk does what is modelled of it as one step:   *)
(* whatever tokens, refusals and edits come in between, a Doc is created   *)
(* only where there is none of its review.  Only a creation that was given *)
(* up, or is overtaken by one, and a Doc that somebody removes change the  *)
(* folder in another way.                                                  *)
ImplementsDesk ==
  [][UNCHANGED docs \/ raced \/ (\E r \in late : Land(r)) \/ (\E i \in DOMAIN docs : Trash(i))
     \/ DeskStep]_Folder

(* No token blocks the desk: once a review has one Doc for good and its    *)
(* decision stays, it is read, although tokens are refused before their    *)
(* time and the clock they are measured by may step back                   *)
(* (google_docs_review_desk.py _call, _access_token).                      *)
DecisionIsRead ==
  \A i \in 1..MaxDocs :
    <>[](i \in DOMAIN docs /\ Found(docs[i].review) = {i} /\ IsDecided(Text(i)))
      => <>(i \in read)
=============================================================================
