--------------------------- MODULE GoogleDeskProofs ---------------------------
(***************************************************************************)
(* Proofs about GoogleDesk for any reviews, packages, material and edits.  *)
(* A Doc that was found alone stays the only voice of its review that can  *)
(* still be found, because a Doc in the trash does not come back; and      *)
(* until a creation lands in between, the folder has no Doc of the review  *)
(* that publish is about to create one for.                                *)
(***************************************************************************)
EXTENDS GoogleDesk, SequenceTheorems, WellFoundedInduction, TLAPS

\* Docs a decision was read from, other than i, are in the trash.
IsSoleVoice(i) ==
  \A j \in read : j # i /\ docs[j].review = docs[i].review => ~docs[j].live

Voice == OneVoice /\ (at = "exporting" => IsSoleVoice(doc))

Vacant == at = "creating" /\ ~raced => Found(request.review) = {}

DeskInv == TypeOK /\ Voice /\ Vacant

\* The steps that change the folder, and what they do to it.
Appends(r) == r \in Creation /\ Created(r)
Changes(i) ==
  /\ i \in DOMAIN docs
  /\ \/ \E block \in Blocks : docs' = [docs EXCEPT ![i].block = block]
     \/ docs' = [docs EXCEPT ![i].live = FALSE]

\* A creation adds one untouched Doc and keeps the others.
LEMMA FolderGrows ==
  ASSUME TypeOK, NEW r, Appends(r)
  PROVE  /\ docs' \in Seq(Doc) /\ Len(docs') = Len(docs) + 1
         /\ \A i \in DOMAIN docs : i \in DOMAIN docs' /\ docs'[i] = docs[i]
         /\ docs'[Len(docs) + 1] =
              [review |-> r.review, package |-> r.package, block |-> Untouched, live |-> TRUE]
<1>1. docs \in Seq(Doc)
  BY DEF TypeOK, FolderOK
<1>2. Untouched \in Seq(Line)
  BY DEF Untouched, Line, Marker
<1>3. [review |-> r.review, package |-> r.package, block |-> Untouched, live |-> TRUE] \in Doc
  BY <1>2 DEF Appends, Doc, Creation
<1> QED BY <1>1, <1>3 DEF Appends, Created

\* Whatever happens to one Doc leaves every review and package in place.
LEMMA FolderKeepsDocs ==
  ASSUME TypeOK, NEW i, Changes(i)
  PROVE  /\ docs' \in Seq(Doc) /\ DOMAIN docs' = DOMAIN docs
         /\ \A j \in DOMAIN docs :
              /\ docs'[j].review = docs[j].review /\ docs'[j].package = docs[j].package
              /\ docs'[j].live => docs[j].live
              /\ j # i => docs'[j] = docs[j]
<1>1. docs \in Seq(Doc) /\ i \in DOMAIN docs
  BY DEF TypeOK, FolderOK, Changes
<1>2. Blocks \subseteq Seq(Line) /\ docs[i] \in Doc
  BY <1>1, DeskAssumption DEF DeskAssumption
<1>3. CASE \E block \in Blocks : docs' = [docs EXCEPT ![i].block = block]
  <2>1. PICK block \in Blocks : docs' = [docs EXCEPT ![i].block = block]
    BY <1>3
  <2>2. [docs[i] EXCEPT !.block = block] \in Doc
    BY <1>2, <2>1 DEF Doc
  <2>3. docs' = [docs EXCEPT ![i] = [docs[i] EXCEPT !.block = block]]
    BY <2>1
  <2> QED BY <1>1, <2>2, <2>3 DEF Doc
<1>4. CASE docs' = [docs EXCEPT ![i].live = FALSE]
  <2>1. [docs[i] EXCEPT !.live = FALSE] \in Doc
    BY <1>2 DEF Doc
  <2>2. docs' = [docs EXCEPT ![i] = [docs[i] EXCEPT !.live = FALSE]]
    BY <1>4
  <2> QED BY <1>1, <2>1, <2>2 DEF Doc
<1> QED BY <1>3, <1>4 DEF Changes

\* The initial states satisfy the invariant.
LEMMA DeskInitEstablishes == Init => DeskInv
<1> SUFFICES ASSUME Init PROVE DeskInv
  OBVIOUS
<1>1. FolderOK
  <2>1. docs \in Seq(Doc) /\ late \in SUBSET Creation /\ read \in SUBSET DOMAIN docs
    BY DEF Init
  <2> QED BY <2>1 DEF Init, FolderOK
<1>2. OperationOK
  BY DEF Init, OperationOK, Place
<1>3. TokenOK
  BY DEF Init, TokenOK
<1> QED BY <1>1, <1>2, <1>3 DEF Init, DeskInv, TypeOK, Voice, OneVoice, Vacant

(* An operation that only goes on, or ends, with the folder as it is.      *)
LEMMA OverKeeps ==
  ASSUME DeskInv, Over, UNCHANGED <<docs, read>>, late' \in SUBSET Creation,
         token' \in Token \cup {NoToken}
  PROVE  DeskInv'
<1>1. at' = "idle" /\ request' = NoRequest /\ doc' = 0 /\ signed' = FALSE /\ raced' = FALSE
  BY DEF Over
<1>2. TypeOK'
  BY <1>1 DEF DeskInv, TypeOK, FolderOK, OperationOK, TokenOK, Place
<1> QED BY <1>1, <1>2 DEF DeskInv, Voice, OneVoice, Vacant

\* Every step keeps the invariant.
LEMMA DeskStepKeeps == DeskInv /\ [Next]_vars => DeskInv'
<1> SUFFICES ASSUME DeskInv, [Next]_vars PROVE DeskInv'
  OBVIOUS
<1> USE DEF Place
<1>t. TypeOK /\ docs \in Seq(Doc) /\ token \in Token \cup {NoToken}
      /\ late \in SUBSET Creation
  BY DEF DeskInv, TypeOK, FolderOK, OperationOK, TokenOK
<1>1. ASSUME NEW review \in Reviews, NEW package \in Packages \cup {NoPackage}, Begin(review, package)
      PROVE  DeskInv'
  <2>1. TypeOK'
    BY <1>1 DEF DeskInv, TypeOK, FolderOK, OperationOK, TokenOK, Begin, Request
  <2>2. Voice' /\ Vacant'
    BY <1>1 DEF DeskInv, Begin, Voice, OneVoice, Vacant
  <2> QED BY <2>1, <2>2 DEF DeskInv
<1>2. CASE SignIn
  <2>1. token' \in Token /\ token' # NoToken /\ signed' = TRUE
        /\ UNCHANGED <<docs, late, at, request, doc, read, raced>>
    BY <1>2, DeskAssumption DEF SignIn, DeskAssumption
  <2>2. TypeOK'
    BY <2>1, <1>t DEF TypeOK, FolderOK, OperationOK, TokenOK
  <2>3. Voice' /\ Vacant'
    BY <2>1 DEF DeskInv, Voice, OneVoice, Vacant, IsSoleVoice, Found
  <2> QED BY <2>2, <2>3 DEF DeskInv
<1>3. CASE Unauthorized
  BY <1>3, <1>t, OverKeeps DEF Unauthorized
<1>4. CASE CallFails
  BY <1>4, <1>t, OverKeeps DEF CallFails
<1>5. CASE FindEnds
  BY <1>5, <1>t, OverKeeps DEF FindEnds
<1>6. CASE CreateGivenUp
  <2>1. request \in Creation
    BY <1>6 DEF CreateGivenUp, IsSent, DeskInv, TypeOK, FolderOK, OperationOK, TokenOK, Request
  <2> QED BY <1>6, <2>1, <1>t, OverKeeps DEF CreateGivenUp
<1>7. CASE FindNone
  <2>1. at' = "creating" /\ doc' = 0 /\ signed' = FALSE /\ Found(request.review) = {}
        /\ request \in Creation /\ request \in Request
        /\ UNCHANGED <<docs, late, token, read, request, raced>>
    BY <1>7 DEF FindNone, Proceed, IsSent, DeskInv, TypeOK, OperationOK, Request, Creation
  <2>2. TypeOK'
    BY <2>1, <1>t DEF TypeOK, FolderOK, OperationOK, TokenOK
  <2> QED BY <2>1, <2>2 DEF DeskInv, Voice, OneVoice, Vacant, Found
<1>8. CASE FindDoc
  <2>1. PICK i \in Found(request.review) :
          /\ Found(request.review) = {i} /\ at' = "exporting" /\ doc' = i /\ signed' = FALSE
          /\ UNCHANGED <<docs, late, token, read, request, raced>>
    BY <1>8 DEF FindDoc, Proceed
  <2>2. i \in DOMAIN docs /\ i \in Nat /\ docs[i].review = request.review /\ request \in Request
    BY <1>8, <2>1, <1>t DEF Found, FindDoc, IsSent, TypeOK, OperationOK
  <2>3. TypeOK'
    BY <2>1, <2>2, <1>t DEF TypeOK, FolderOK, OperationOK, TokenOK
  <2>4. IsSoleVoice(i)
    <3> SUFFICES ASSUME NEW j \in read, j # i, docs[j].review = docs[i].review, docs[j].live
                 PROVE  FALSE
      BY DEF IsSoleVoice
    <3>1. j \in DOMAIN docs
      BY DEF DeskInv, TypeOK, FolderOK, OperationOK, TokenOK
    <3>2. j \in Found(request.review)
      BY <2>2, <3>1 DEF Found
    <3> QED BY <2>1, <3>2
  <2>5. Voice'
    BY <2>1, <2>4 DEF DeskInv, Voice, OneVoice, IsSoleVoice
  <2> QED BY <2>1, <2>3, <2>5 DEF DeskInv, Vacant
<1>9. CASE Export
  <2>1. at = "exporting" /\ at' = "idle" /\ request' = NoRequest /\ doc' = 0 /\ signed' = FALSE
        /\ raced' = FALSE /\ UNCHANGED <<docs, late, token>> /\ read' \subseteq read \cup {doc}
    BY <1>9 DEF Export, IsSent, Over
  <2>2. TypeOK'
    BY <2>1 DEF DeskInv, TypeOK, FolderOK, OperationOK, TokenOK
  <2>3. OneVoice'
    BY <2>1 DEF DeskInv, Voice, OneVoice, IsSoleVoice
  <2> QED BY <2>1, <2>2, <2>3 DEF DeskInv, Voice, Vacant
\* The folder grows by a Doc nothing was read from yet.
<1>a. ASSUME NEW r, Appends(r), UNCHANGED read
      PROVE  OneVoice' /\ (\A i \in DOMAIN docs : IsSoleVoice(i) => IsSoleVoice(i)')
  <2>1. read \subseteq DOMAIN docs
    BY DEF DeskInv, TypeOK, FolderOK, OperationOK, TokenOK
  <2>2. \A i \in DOMAIN docs : docs'[i] = docs[i]
    BY <1>a, <1>t, FolderGrows
  <2>3. OneVoice'
    BY <1>a, <2>1, <2>2 DEF DeskInv, Voice, OneVoice
  <2>4. ASSUME NEW i \in DOMAIN docs, IsSoleVoice(i) PROVE IsSoleVoice(i)'
    BY <1>a, <2>1, <2>2, <2>4 DEF IsSoleVoice
  <2> QED BY <2>3, <2>4
<1>10. CASE Create
  <2>1. Appends(request) /\ Over /\ UNCHANGED <<late, token, read>>
    BY <1>10 DEF Create, IsSent, Appends, DeskInv, TypeOK, FolderOK, OperationOK, TokenOK, Request
  <2>2. at' = "idle" /\ request' = NoRequest /\ doc' = 0 /\ signed' = FALSE /\ raced' = FALSE
    BY <2>1 DEF Over
  <2>3. read' \in SUBSET DOMAIN docs'
    BY <2>1, <1>t, FolderGrows DEF DeskInv, TypeOK, FolderOK, OperationOK, TokenOK
  <2>4. TypeOK'
    BY <2>1, <2>2, <2>3, <1>t, FolderGrows DEF TypeOK, FolderOK, OperationOK, TokenOK
  <2> QED BY <2>1, <2>2, <2>4, <1>a DEF DeskInv, Voice, Vacant
<1>11. ASSUME NEW r \in late, Land(r)
       PROVE  DeskInv'
  <2>1. Appends(r) /\ late' = late \ {r} /\ UNCHANGED <<at, request, doc, signed, token, read>>
        /\ raced' = (raced \/ (at = "creating" /\ request.review = r.review))
    BY <1>11, <1>t DEF Land, Appends, local
  <2>2. /\ read' \in SUBSET DOMAIN docs'
        /\ at' = "exporting" => doc' \in DOMAIN docs'
    BY <2>1, <1>t, FolderGrows DEF DeskInv, TypeOK, FolderOK, OperationOK, TokenOK
  <2>3. TypeOK'
    BY <2>1, <2>2, <1>t, FolderGrows DEF TypeOK, FolderOK, OperationOK, TokenOK
  <2>4. Voice'
    <3>1. at = "exporting" => doc \in DOMAIN docs /\ IsSoleVoice(doc)
      BY DEF DeskInv, TypeOK, FolderOK, OperationOK, TokenOK, Voice
    <3>2. OneVoice' /\ (\A i \in DOMAIN docs : IsSoleVoice(i) => IsSoleVoice(i)')
      BY <2>1, <1>a
    <3> QED BY <2>1, <3>1, <3>2 DEF Voice, IsSoleVoice
  <2>5. Vacant'
    <3> SUFFICES ASSUME at = "creating", ~raced, request.review # r.review
                 PROVE  Found(request.review)' = {}
      BY <2>1 DEF Vacant
    <3>1. Found(request.review) = {}
      BY DEF DeskInv, Vacant
    <3>2. docs' \in Seq(Doc) /\ Len(docs') = Len(docs) + 1
          /\ docs'[Len(docs) + 1].review = r.review
          /\ \A k \in DOMAIN docs : docs'[k] = docs[k]
      <4>1. Appends(r) /\ TypeOK
        BY <2>1, <1>t
      <4>2. docs'[Len(docs) + 1] =
              [review |-> r.review, package |-> r.package, block |-> Untouched, live |-> TRUE]
        BY <4>1, FolderGrows
      <4>3. docs'[Len(docs) + 1].review = r.review
        BY <4>2
      <4> QED BY <4>1, <4>3, FolderGrows
    <3>3. DOMAIN docs' = DOMAIN docs \cup {Len(docs) + 1}
      BY <3>2, <1>t
    <3>4. \A k \in DOMAIN docs' : k \in Found(request.review)' => k \in Found(request.review)
      BY <2>1, <3>2, <3>3 DEF Found
    <3> QED BY <3>1, <3>4 DEF Found
  <2> QED BY <2>3, <2>4, <2>5 DEF DeskInv
<1>12. ASSUME NEW i, Changes(i), UNCHANGED <<late, local, token, read, raced>>
       PROVE  DeskInv'
  <2>1. UNCHANGED <<late, at, request, doc, signed, token, read, raced>>
    BY <1>12 DEF local
  <2>2. TypeOK'
    BY <1>12, <2>1, <1>t, FolderKeepsDocs DEF DeskInv, TypeOK, FolderOK, OperationOK, TokenOK
  <2>3. \A j \in DOMAIN docs :
          docs'[j].review = docs[j].review /\ (docs'[j].live => docs[j].live)
    BY <1>12, <1>t, FolderKeepsDocs
  <2>4. Voice'
    BY <2>1, <2>3 DEF DeskInv, TypeOK, FolderOK, OperationOK, TokenOK, Voice, OneVoice, IsSoleVoice
  <2>5. Vacant'
    BY <1>12, <2>1, <2>3, <1>t, FolderKeepsDocs DEF DeskInv, Vacant, Found
  <2> QED BY <2>2, <2>4, <2>5 DEF DeskInv
<1>13. ASSUME UNCHANGED <<docs, late, at, request, doc, signed, read, raced>>,
              token' \in Token \cup {NoToken}, signed => token' # NoToken
       PROVE  DeskInv'
  <2>1. TypeOK'
    BY <1>13 DEF DeskInv, TypeOK, FolderOK, OperationOK, TokenOK
  <2> QED BY <1>13, <2>1 DEF DeskInv, Voice, OneVoice, IsSoleVoice, Vacant, Found
<1>14. CASE Revoke
  <2>1. token' \in Token
    BY <1>14, <1>t DEF Revoke, Token
  <2> QED BY <1>14, <2>1, <1>13, DeskAssumption DEF Revoke, local, DeskAssumption
<1>15. CASE ClockMoves
  <2>1. token' \in Token
    BY <1>15, <1>t DEF ClockMoves, Token
  <2> QED BY <1>15, <2>1, <1>13, DeskAssumption DEF ClockMoves, local, DeskAssumption
<1>16. CASE UNCHANGED vars
  BY <1>16, <1>13, <1>t DEF vars, local, DeskInv, TypeOK, FolderOK, OperationOK, TokenOK
<1>17. ASSUME NEW i \in DOMAIN docs, Trash(i) PROVE DeskInv'
  BY <1>17, <1>12 DEF Trash, Changes
<1>18. ASSUME NEW i \in DOMAIN docs, NEW block \in Blocks, Edit(i, block) PROVE DeskInv'
  BY <1>18, <1>12 DEF Edit, Changes
<1> QED BY <1>1, <1>2, <1>3, <1>4, <1>5, <1>6, <1>7, <1>8, <1>9, <1>10, <1>11, <1>14, <1>15,
           <1>16, <1>17, <1>18 DEF Next, Call, Others

\* The invariant the theorems below rest on.
LEMMA DeskInvHolds == Spec => []DeskInv
BY DeskInitEstablishes, DeskStepKeeps, PTL DEF Spec

(* For any folder, tokens and edits, no two Docs of a review that can both *)
(* still be found have given decisions (google_docs_review_desk.py _find). *)
THEOREM OneVoiceHeld == Spec => []OneVoice
<1>1. DeskInv => OneVoice
  BY DEF DeskInv, Voice
<1> QED BY <1>1, DeskInvHolds, PTL

-----------------------------------------------------------------------------
(* The Doc's text. *)

(* The first of some positions is one of them, and none comes before it.   *)
LEMMA FirstIsLeast ==
  ASSUME NEW S \in SUBSET Nat, S # {}
  PROVE  First(S) \in S /\ \A m \in S : First(S) <= m
<1> DEFINE R == OpToRel(<, Nat)
<1>1. IsWellFoundedOn(R, Nat)
  BY NatLessThanWellFounded
<1>2. \A x, y \in Nat : x < y => <<x, y>> \in R
  BY DEF OpToRel
<1> HIDE DEF R
<1>3. PICK x \in S : \A y \in S : ~ (<<y, x>> \in R)
  BY <1>1, WFMin
<1>4. \A y \in S : ~(y < x) /\ x \in Nat /\ y \in Nat
  BY <1>2, <1>3
<1>5. \A y \in S : x <= y
  BY <1>4
<1> QED BY <1>3, <1>5 DEF First

(* Of a readable text, what the block of the reviewer contributes.         *)
LEMMA BlockDecides ==
  ASSUME NEW block \in Seq(Line), NEW material \in Seq(Line),
         IsDecided(block \o material), \E k \in DOMAIN block : block[k].mark # "none"
  PROVE  /\ \E k \in DOMAIN block :
              block[k].mark = "decision" /\ block[k].text = Word(block \o material)
         /\ Separators(block) # {} => ReasonLines(block \o material) \subseteq DOMAIN block
<1> DEFINE lines == block \o material
<1>1. PICK n \in Nat : n = Len(block) /\ DOMAIN block = 1..n
  OBVIOUS
<1>2. lines \in Seq(Line) /\ n <= Len(lines)
      /\ \A k \in 1..n : lines[k] = block[k] /\ k \in DOMAIN lines
  <2>1. Len(material) \in Nat
    OBVIOUS
  <2>2. lines \in Seq(Line) /\ Len(lines) = Len(block) + Len(material)
    BY ConcatProperties, Zenon
  <2>3. ASSUME NEW k \in 1..n PROVE lines[k] = block[k] /\ k \in DOMAIN lines
    <3>1. k \in 1..(Len(block) + Len(material)) /\ k <= Len(block)
      BY <1>1, <2>1
    <3>2. lines[k] = block[k]
      BY <3>1, ConcatProperties
    <3> QED BY <2>2, <3>1, <3>2
  <2> QED BY <1>1, <2>1, <2>2, <2>3
<1>3. IsDecided(lines)
  OBVIOUS
<1> HIDE DEF lines
<1>4. Separators(lines) \in SUBSET Nat /\ Separators(lines) # {}
  BY <1>2, <1>3 DEF Separators, IsDecided, IsReadable
<1>5. PICK s \in Nat : /\ s = First(Separators(lines)) /\ s \in Separators(lines)
                       /\ \A m \in Separators(lines) : s <= m
  BY <1>4, FirstIsLeast
<1>6. Block(lines) = 1..(s - 1)
  BY <1>5 DEF Block
<1>7. PICK d \in Block(lines) : Marked(lines, "decision") = {d}
  BY <1>3 DEF IsDecided, IsReadable, IsSingle, Marked
<1>8. PICK r \in Block(lines) : Marked(lines, "reason") = {r}
  BY <1>3 DEF IsDecided, IsReadable, IsSingle, Marked
<1>9. First({d}) = d /\ First({r}) = r
  BY <1>6 DEF First
<1>10. d < r /\ lines[d].mark = "decision" /\ Word(lines) = lines[d].text
  BY <1>3, <1>7, <1>8, <1>9 DEF IsDecided, IsReadable, Word, Marked
<1>11. ReasonLines(lines) \subseteq Block(lines)
  BY DEF ReasonLines
<1>12. CASE Separators(block) # {}
  <2>1. PICK k \in 1..n : block[k].mark = "separator"
    BY <1>1, <1>12 DEF Separators
  <2>2. k \in Separators(lines)
    BY <1>2, <2>1 DEF Separators
  <2>3. s <= n
    BY <1>5, <2>1, <2>2
  <2>4. Block(lines) \subseteq 1..n /\ d \in 1..n
    BY <1>6, <2>3
  <2> QED BY <1>1, <1>2, <1>10, <1>11, <2>4 DEF lines
<1>13. CASE Separators(block) = {}
  <2>1. n < s
    <3>1. s \in DOMAIN lines /\ lines[s].mark = "separator"
      BY <1>5 DEF Separators
    <3>2. ~(s \in 1..n)
      BY <1>1, <1>2, <1>13, <3>1 DEF Separators
    <3>3. s >= 1
      BY <1>2, <3>1
    <3> QED BY <3>2, <3>3
  <2>2. PICK k \in 1..n : block[k].mark # "none"
    BY <1>1
  <2>3. block[k].mark \in {"decision", "reason"}
    <3>1. block[k] \in Line
      BY <1>1
    <3>2. block[k].mark # "separator"
      BY <1>1, <1>13 DEF Separators
    <3> QED BY <2>2, <3>1, <3>2 DEF Line
  <2>4. k \in Marked(lines, block[k].mark)
    BY <1>2, <1>6, <2>1 DEF Marked
  <2>5. k = d \/ k = r
    BY <1>7, <1>8, <2>3, <2>4
  <2>6. d \in 1..n
    BY <1>6, <1>10, <2>5
  <2> QED BY <1>1, <1>2, <1>10, <1>13, <2>6 DEF lines
<1> QED BY <1>12, <1>13

(* For any material, and whatever a reviewer leaves of the block as long   *)
(* as it is something, a decision that is read is theirs                   *)
(* (google_docs_review_desk.py read_decision).                             *)
THEOREM ReviewerDecides == Spec => []OnlyTheReviewerDecides
<1>1. DeskInv => OnlyTheReviewerDecides
  <2> SUFFICES ASSUME DeskInv, NEW i \in DOMAIN docs, IsDecided(Text(i)),
                      \E k \in DOMAIN docs[i].block : docs[i].block[k].mark # "none"
               PROVE  /\ \E k \in DOMAIN docs[i].block :
                           docs[i].block[k].mark = "decision"
                             /\ docs[i].block[k].text = Word(Text(i))
                      /\ Separators(docs[i].block) # {} =>
                           ReasonLines(Text(i)) \subseteq DOMAIN docs[i].block
    BY DEF OnlyTheReviewerDecides
  <2>1. docs[i] \in Doc
    BY DEF DeskInv, TypeOK, FolderOK
  <2>2. docs[i].block \in Seq(Line) /\ Material[docs[i].package] \in Seq(Line)
    BY <2>1, DeskAssumption DEF Doc, DeskAssumption
  <2>3. Text(i) = docs[i].block \o Material[docs[i].package]
    BY DEF Text
  <2> QED BY <2>2, <2>3, BlockDecides
<1> QED BY <1>1, DeskInvHolds, PTL

-----------------------------------------------------------------------------
(* The abstract desk. *)

(* A Doc that was just created shows no decision, whatever its material.   *)
LEMMA CreatedIsUndecided ==
  ASSUME NEW package \in Packages
  PROVE  ~IsDecided(Untouched \o Material[package])
<1> DEFINE lines == Untouched \o Material[package]
<1>1. Untouched \in Seq(Line) /\ Len(Untouched) = 4 /\ Material[package] \in Seq(Line)
  <2>1. \A mark \in {"decision", "reason", "separator", "none"} : Marker(mark) \in Line
    BY DEF Marker, Line
  <2>2. Material[package] \in Seq(Line)
    BY DeskAssumption DEF DeskAssumption
  <2> QED BY <2>1, <2>2 DEF Untouched
<1>2. lines \in Seq(Line) /\ Len(lines) >= 4 /\ \A k \in 1..4 : lines[k] = Untouched[k]
  <2>1. Len(Material[package]) \in Nat
    BY <1>1
  <2>2. lines \in Seq(Line) /\ Len(lines) = Len(Untouched) + Len(Material[package])
    BY <1>1, ConcatProperties, Zenon
  <2>3. ASSUME NEW k \in 1..4 PROVE lines[k] = Untouched[k]
    <3>1. k \in 1..(Len(Untouched) + Len(Material[package])) /\ k <= Len(Untouched)
      BY <1>1, <2>1
    <3> QED BY <1>1, <3>1, ConcatProperties
  <2> QED BY <1>1, <2>1, <2>2, <2>3
<1>3. lines[1].mark = "none" /\ lines[2] = [mark |-> "decision", text |-> "blank"]
      /\ lines[3].mark = "reason" /\ lines[4].mark = "separator"
  BY <1>2 DEF Untouched, Marker
<1> HIDE DEF lines
<1>4. 4 \in Separators(lines) /\ Separators(lines) \subseteq Nat \ (0..3)
  BY <1>2, <1>3 DEF Separators
<1>5. First(Separators(lines)) = 4
  BY <1>4 DEF First
<1>6. Marked(lines, "decision") = {2}
  BY <1>3, <1>5 DEF Marked, Block
<1>7. First(Marked(lines, "decision")) = 2
  BY <1>6 DEF First
<1>8. Word(lines) = "blank"
  BY <1>3, <1>7 DEF Word
<1>9. ~IsDecided(lines)
  BY <1>8, DeskAssumption DEF IsDecided, DeskAssumption
<1> QED BY <1>9 DEF lines

(* What can be read in a Doc is a decision, or that there is none.         *)
LEMMA ShownIsTyped ==
  ASSUME NEW i PROVE Shown(i).decision \in Decisions \cup {Undecided}
BY DEF Shown, IsDecided

(* The desk that is asked request by request does what is modelled of it   *)
(* as one step (google_docs_review_desk.py publish).                       *)
THEOREM DeskImplemented == Spec => ImplementsDesk
<1> DEFINE Elsewhere == UNCHANGED docs \/ raced \/ (\E r \in late : Land(r)) \/ (\E i \in DOMAIN docs : Trash(i))
<1>1. ASSUME DeskInv, Create, ~raced PROVE DeskStep
  <2>1. Appends(request) /\ at = "creating" /\ TypeOK
    BY <1>1 DEF Create, IsSent, Appends, DeskInv, TypeOK, OperationOK
  <2>2. Found(request.review) = {} /\ request.review \in Reviews /\ request.package \in Packages
    BY <1>1, <2>1 DEF DeskInv, Vacant, Appends, Creation
  <2>3. Desk!Found(request.review) = {}
    <3> SUFFICES ASSUME NEW i \in DOMAIN docs, Shown(i).review = request.review PROVE FALSE
      BY DEF Desk!Found, Folder
    <3>1. docs[i].live /\ docs[i].review = request.review
      BY <2>2, DeskAssumption DEF Shown, DeskAssumption
    <3> QED BY <2>2, <3>1 DEF Found
  <2> DEFINE new == [review |-> request.review, package |-> request.package, decision |-> Undecided]
  <2>n. PICK n \in Nat : n = Len(docs)
    BY <2>1 DEF TypeOK, FolderOK
  <2>4. /\ docs' \in Seq(Doc) /\ Len(docs') = n + 1 /\ docs \in Seq(Doc)
        /\ \A i \in DOMAIN docs : docs'[i] = docs[i]
        /\ docs'[n + 1] = [review |-> request.review, package |-> request.package,
                                   block |-> Untouched, live |-> TRUE]
    BY <2>1, <2>n, FolderGrows DEF TypeOK, FolderOK
  <2>5. \A i \in DOMAIN docs : Shown(i)' = Shown(i)
    BY <2>4 DEF Shown, Text
  <2>6. Shown(n + 1)' = new
    <3>1. Text(n + 1)' = Untouched \o Material[request.package]
      <4>1. docs'[n + 1].block = Untouched /\ docs'[n + 1].package = request.package
        BY <2>4
      <4> QED BY <4>1 DEF Text
    <3>2. ~IsDecided(Text(n + 1)')
      BY <2>2, <3>1, CreatedIsUndecided
    <3>3. docs'[n + 1].live /\ docs'[n + 1].review = request.review
          /\ docs'[n + 1].package = request.package
      BY <2>4
    <3> QED BY <3>2, <3>3 DEF Shown
  <2>7. Folder' = Append(Folder, new)
    <3>1. DOMAIN docs' = 1..(n + 1) /\ DOMAIN docs = 1..n
      BY <2>n, <2>4
    <3>2. Folder = [i \in 1..n |-> Shown(i)] /\ Len(Folder) = n
      BY <3>1 DEF Folder
    <3>3. Folder' = [i \in 1..(n + 1) |-> Shown(i)']
      BY <3>1 DEF Folder
    <3>4. Append(Folder, new) = [i \in 1..(n + 1) |-> IF i = n + 1 THEN new ELSE Folder[i]]
      BY <3>1, <3>2
    <3>5. \A i \in 1..(n + 1) :
            Shown(i)' = IF i = n + 1 THEN new ELSE Folder[i]
      BY <2>5, <2>6, <3>1, <3>2
    <3> QED BY <3>3, <3>4, <3>5
  <2>8. Desk!Publish(request.review, request.package)
    BY <2>3, <2>7 DEF Desk!Publish, Desk!Created
  <2> QED BY <2>2, <2>8 DEF DeskStep
<1>2. ASSUME DeskInv, NEW i \in DOMAIN docs, NEW block \in Blocks, Edit(i, block)
      PROVE  DeskStep
  <2>1. docs[i].live /\ docs' = [docs EXCEPT ![i].block = block] /\ docs \in Seq(Doc)
    BY <1>2 DEF Edit, DeskInv, TypeOK, FolderOK
  <2>2. docs[i].review \in Reviews /\ Shown(i).review = docs[i].review
    <3>1. docs[i] \in Doc
      BY <2>1
    <3> QED BY <2>1, <3>1 DEF Doc, Shown
  <2>3. DOMAIN docs' = DOMAIN docs /\ \A j \in DOMAIN docs : j # i => docs'[j] = docs[j]
    BY <2>1
  <2>4. docs'[i].review = docs[i].review /\ docs'[i].package = docs[i].package /\ docs'[i].live
    <3>1. docs[i] \in Doc
      BY <2>1
    <3>2. docs'[i] = [docs[i] EXCEPT !.block = block]
      BY <2>1
    <3> QED BY <2>1, <3>1, <3>2 DEF Doc
  <2>5. \A j \in DOMAIN docs : j # i => Shown(j)' = Shown(j)
    BY <2>3 DEF Shown, Text
  <2>6. Shown(i)' = [Shown(i) EXCEPT !.decision = Shown(i)'.decision]
    BY <2>1, <2>4 DEF Shown
  <2>7. Folder' = [Folder EXCEPT ![i].decision = Shown(i)'.decision]
    BY <2>3, <2>5, <2>6 DEF Folder
  <2>8. i \in Desk!Found(docs[i].review)
    BY <2>2 DEF Desk!Found, Folder
  <2>9. Shown(i)'.decision \in Decisions \cup {Undecided}
    BY DEF Shown, IsDecided
  <2>10. Desk!Decide(docs[i].review, Shown(i)'.decision)
    BY <2>7, <2>8 DEF Desk!Decide
  <2> QED BY <2>2, <2>9, <2>10 DEF DeskStep
<1>3. DeskInv /\ [Next]_vars => [Elsewhere \/ DeskStep]_Folder
  <2> SUFFICES ASSUME DeskInv, [Next]_vars PROVE Elsewhere \/ DeskStep
    OBVIOUS
  <2>1. CASE Call
    BY <1>1, <2>1 DEF Call, SignIn, Unauthorized, CallFails, FindDoc, FindNone, FindEnds,
                      CreateGivenUp, Export
  <2>2. CASE Others
    BY <1>2, <2>2 DEF Others, Revoke, ClockMoves
  <2>3. CASE \E review \in Reviews, package \in Packages \cup {NoPackage} : Begin(review, package)
    BY <2>3 DEF Begin
  <2> QED BY <2>1, <2>2, <2>3 DEF Next, vars
<1> QED BY <1>3, DeskInvHolds, PTL DEF Spec, ImplementsDesk
=============================================================================
