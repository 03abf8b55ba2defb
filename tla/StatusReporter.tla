---------------------------- MODULE StatusReporter ----------------------------
(***************************************************************************)
(* The status write-back of one Run (application/brief_status.py) on a     *)
(* board whose writes can be refused, and can take effect although the     *)
(* answer is lost (infrastructure/notion_brief_board.py: both reach the    *)
(* reporter as a BriefBoardError).  `reporter' is what one reporter        *)
(* remembers of the Run; `owed' is the report it is about to make, so a    *)
(* crash may fall between a save and its report.                           *)
(***************************************************************************)
CONSTANTS Statuses, NoStatus, NoLocation

VARIABLES
  board,      \* what the brief's page shows: a Run status and a review's location
  reporter,   \* _attempted, _shown and _shown_locations of this Run
  owed        \* the status being reported, or NoStatus

Fresh == [attempted |-> NoStatus, shown |-> NoStatus, location |-> NoLocation]

Init ==
  /\ board = [status |-> NoStatus, link |-> NoLocation]
  /\ reporter = Fresh /\ owed = NoStatus

\* No report is being made: each is made inside the save or sync that wants it.
IsIdle == owed = NoStatus
unchanged == UNCHANGED <<board, reporter, owed>>

\* _report, up to the call of the board.
BeginReport(status) ==
  /\ reporter' = [reporter EXCEPT !.attempted = status] /\ owed' = status
  /\ UNCHANGED board

\* save, after the wrapped store has saved.
Save(status) ==
  IF reporter.attempted = status THEN unchanged ELSE BeginReport(status)

\* Mutant: the status is shown at the end of every invocation.
SyncAlways(status) == BeginReport(status)

Sync(status) ==
  IF reporter.shown = status THEN unchanged ELSE BeginReport(status)

\* The board shows the status and says so.
ReportShown ==
  /\ owed # NoStatus
  /\ board' = [board EXCEPT !.status = owed]
  /\ reporter' = [reporter EXCEPT !.shown = owed]
  /\ owed' = NoStatus

\* A BriefBoardError: the write was refused, or only its answer was lost.
ReportRefused ==
  /\ owed # NoStatus
  /\ board' \in {board, [board EXCEPT !.status = owed]}
  /\ owed' = NoStatus
  /\ UNCHANGED reporter

IsShown(location) == reporter.location = location

LocationShown(location) ==
  /\ board' = [board EXCEPT !.link = location]
  /\ reporter' = [reporter EXCEPT !.location = location]
  /\ UNCHANGED owed

\* Mutant: a refused location counts as shown.
LocationForgotten(location) ==
  /\ board' \in {board, [board EXCEPT !.link = location]}
  /\ reporter' = [reporter EXCEPT !.location = location]
  /\ UNCHANGED owed

LocationRefused(location) ==
  /\ board' \in {board, [board EXCEPT !.link = location]}
  /\ UNCHANGED <<reporter, owed>>

\* The process ends: a new reporter remembers nothing.
Restart == reporter' = Fresh /\ owed' = NoStatus /\ UNCHANGED board

TypeOK ==
  /\ board.status \in Statuses \cup {NoStatus}
  /\ reporter.attempted \in Statuses \cup {NoStatus}
  /\ reporter.shown \in Statuses \cup {NoStatus}
  /\ owed \in {NoStatus, reporter.attempted}
=============================================================================
