---------------------------- MODULE RecordReview ----------------------------
(***************************************************************************)
(* One student's attendance record in the hands of everybody who may write *)
(* it: the student asks for an excuse or disputes the record, reviewers    *)
(* (the teacher, an officer of the department) decide from lists they      *)
(* loaded some time ago, the teacher sets the status by hand, scans sync   *)
(* late, and the end of the session closes what is pending.                *)
(*                                                                         *)
(* A handler reads the record, tests what it read and later writes; only   *)
(* the scans and the close test the row again in the statement that writes.*)
(***************************************************************************)
EXTENDS FiniteSets

CONSTANTS
    Clients,      \* tabs and devices of the student
    Reviewers,    \* pages of reviewers
    Submissions   \* scan submissions of the student

VARIABLES
    mode,       \* the session's mode
    ended,      \* the session was closed
    record,     \* the attendance record
    asking,     \* a client's request between its read and its write
    listed,     \* which queues showed the record when a reviewer loaded them
    deciding,   \* a reviewer's decision between its read and its write
    scan,       \* a submission between validation and the write
    word        \* history: the status a teacher last gave the record

reviewVars == <<mode, ended, record, asking, listed, deciding, scan, word>>

Statuses == {"pending", "present", "late", "absent", "incomplete", "disputed", "excused"}
Excusable == {"absent", "late", "incomplete"}
Places(m) == IF m = "online" THEN {"start", "end"} ELSE {"room"}

Record == [status : Statuses, manuallySet : BOOLEAN, disputeResolved : BOOLEAN,
           excuseStatus : {"none", "requested", "approved", "rejected"},
           taken : SUBSET {"room", "start", "end"}]

ReviewTypeOK ==
    /\ mode \in {"in_person", "online"}
    /\ ended \in BOOLEAN
    /\ record \in Record
    /\ record.taken \subseteq Places(mode)
    /\ asking \in [Clients -> {"none", "excuse", "dispute"}]
    /\ listed \in [Reviewers -> SUBSET {"excuses", "disputes"}]
    /\ deciding \in [Reviewers -> {"none", "approve", "reject"}]
    /\ word \in Statuses \cup {"none", "rejected"}
    /\ scan \in [Submissions -> [state : {"new", "valid", "done"}, place : {"room", "start", "end"},
                           verdict : {"present", "late", "disputed"}]]

NewScan == [state |-> "new", place |-> "room", verdict |-> "present"]

ReviewInit ==
    /\ mode \in {"in_person", "online"} /\ ended = FALSE
    /\ record = [status |-> "pending", manuallySet |-> FALSE, disputeResolved |-> FALSE,
                 excuseStatus |-> "none", taken |-> {}]
    /\ asking = [c \in Clients |-> "none"]
    /\ listed = [r \in Reviewers |-> {}]
    /\ deciding = [r \in Reviewers |-> "none"]
    /\ scan = [s \in Submissions |-> NewScan]
    /\ word = "none"

Open(rec) == rec.status = "disputed" /\ ~rec.disputeResolved

-----------------------------------------------------------------------------
(* The student *)

\* requestExcuse reads the record and tests it ...
RequestExcuseRead(c) ==
    /\ asking[c] = "none"
    /\ record.status \in Excusable
    /\ record.excuseStatus \in {"none", "rejected"}
    /\ asking' = [asking EXCEPT ![c] = "excuse"]
    /\ UNCHANGED <<mode, ended, record, listed, deciding, scan, word>>

\* ... stores the evidence, and opens the request whatever the row says by now.
RequestExcuseWrite(c) ==
    /\ asking[c] = "excuse"
    /\ asking' = [asking EXCEPT ![c] = "none"]
    /\ record' = [record EXCEPT !.excuseStatus = "requested"]
    /\ UNCHANGED <<mode, ended, listed, deciding, scan, word>>

\* A dispute of one's own record: anything but a pending row or an open dispute.
DisputeRead(c) ==
    /\ asking[c] = "none"
    /\ record.status # "pending"
    /\ ~Open(record)
    /\ asking' = [asking EXCEPT ![c] = "dispute"]
    /\ UNCHANGED <<mode, ended, record, listed, deciding, scan, word>>

DisputeWrite(c) ==
    /\ asking[c] = "dispute"
    /\ asking' = [asking EXCEPT ![c] = "none"]
    /\ record' = [record EXCEPT !.status = "disputed", !.disputeResolved = FALSE]
    /\ UNCHANGED <<mode, ended, listed, deciding, scan, word>>

-----------------------------------------------------------------------------
(* The reviewers *)

\* The pages load their queues: excuses still requested, disputes unresolved.
LoadQueues(r) ==
    /\ deciding[r] = "none"
    /\ listed' = [listed EXCEPT ![r] =
           {q \in {"excuses", "disputes"} : \/ q = "excuses" /\ record.excuseStatus = "requested"
                                            \/ q = "disputes" /\ Open(record)}]
    /\ UNCHANGED <<mode, ended, record, asking, deciding, scan, word>>

\* decideExcuse reads the record: the request must still be open ...
DecideExcuseRead(r, decision) ==
    /\ "excuses" \in listed[r]
    /\ deciding[r] = "none"
    /\ record.excuseStatus = "requested"
    /\ deciding' = [deciding EXCEPT ![r] = decision]
    /\ UNCHANGED <<mode, ended, record, asking, listed, scan, word>>

Decided(rec, decision) ==
    IF decision = "approve" THEN [rec EXCEPT !.status = "excused", !.excuseStatus = "approved"]
                            ELSE [rec EXCEPT !.excuseStatus = "rejected"]

\* ... and the decision is written without another look; the page reloads.
DecideExcuseWrite(r) ==
    /\ deciding[r] # "none"
    /\ record' = Decided(record, deciding[r])
    /\ deciding' = [deciding EXCEPT ![r] = "none"]
    /\ listed' = [listed EXCEPT ![r] = @ \ {"excuses"}]
    /\ word' = IF deciding[r] = "approve" THEN "excused" ELSE word
    /\ UNCHANGED <<mode, ended, asking, scan>>

Resolutions ==
    {<<"accept", "present">>, <<"reject", "absent">>}
        \cup ({"override"} \X {"present", "late", "absent"})

\* The teacher resolves the dispute of the list; the record is not looked at.
ResolveDispute(r, resolution) ==
    /\ "disputes" \in listed[r]
    /\ deciding[r] = "none"
    /\ record' = [record EXCEPT !.status = resolution[2], !.disputeResolved = TRUE,
                                !.manuallySet = resolution[1] = "override"]
    /\ listed' = [listed EXCEPT ![r] = @ \ {"disputes"}]
    /\ word' = IF resolution[1] = "reject" THEN "rejected" ELSE resolution[2]
    /\ UNCHANGED <<mode, ended, asking, deciding, scan>>

\* The teacher sets the status by hand (updateStatus, createManual).
SetManually(status) ==
    /\ record' = [record EXCEPT !.status = status, !.manuallySet = TRUE]
    /\ word' = status
    /\ UNCHANGED <<mode, ended, asking, listed, deciding, scan>>

-----------------------------------------------------------------------------
(* Scans and the end of the session *)

\* The validator's verdict, from rows read before the transaction.  A session
\* that it saw ended leaves only the flag of a delayed off-line scan.
ScanValidated(s, place, verdict) ==
    /\ scan[s].state = "new"
    /\ place \in Places(mode)
    /\ ended => verdict = "disputed"
    /\ scan' = [scan EXCEPT ![s] = [state |-> "valid", place |-> place, verdict |-> verdict]]
    /\ UNCHANGED <<mode, ended, record, asking, listed, deciding, word>>

TakesBlindly(rec, s) ==                  \* faulty: only the validator looked at the status
    scan[s].place \notin rec.taken
TakesUnlessDecided(rec, s) ==            \* faulty: an open dispute may be settled by a scan
    /\ rec.status \in {"pending", "absent", "disputed"}
    /\ ~rec.manuallySet /\ scan[s].place \notin rec.taken

\* The row matches the conditional update.
Takes(rec, s) ==
    /\ rec.status \in IF scan[s].verdict = "disputed" THEN {"pending", "absent"} ELSE {"pending"}
    /\ ~rec.manuallySet
    /\ scan[s].place \notin rec.taken

\* On line an accepted leg leaves the row pending until the end.
ScanWrite(s) ==
    LET status == IF mode = "online" /\ scan[s].verdict # "disputed"
                  THEN record.status ELSE scan[s].verdict
    IN  /\ scan[s].state = "valid"
        /\ scan' = [scan EXCEPT ![s] = [NewScan EXCEPT !.state = "done"]]
        /\ \/ /\ Takes(record, s)
              /\ record' = [record EXCEPT !.status = status, !.taken = @ \cup {scan[s].place}]
           \/ ~Takes(record, s) /\ UNCHANGED record
        /\ UNCHANGED <<mode, ended, asking, listed, deciding, word>>

\* The outcome of a row that is pending at the end.
ClosedStatuses == IF mode = "online" THEN {"present", "late", "incomplete", "absent"} ELSE {"absent"}

\* In person a row the teacher left pending is closed too; on line it is not.
Closes(rec) == rec.status = "pending" /\ (mode = "online" => ~rec.manuallySet)

CloseSession ==
    /\ ~ended
    /\ ended' = TRUE
    /\ \/ /\ Closes(record)
          /\ \E status \in ClosedStatuses :
                 record' = [record EXCEPT !.status = status,
                                          !.manuallySet = IF mode = "online" THEN @ ELSE FALSE]
       \/ ~Closes(record) /\ UNCHANGED record
    /\ UNCHANGED <<mode, asking, listed, deciding, scan, word>>

-----------------------------------------------------------------------------
Student == \E c \in Clients : \/ RequestExcuseRead(c) \/ RequestExcuseWrite(c)
                              \/ DisputeRead(c) \/ DisputeWrite(c)

Teacher ==
    \/ \E r \in Reviewers :
           \/ LoadQueues(r)
           \/ \E decision \in {"approve", "reject"} : DecideExcuseRead(r, decision)
           \/ DecideExcuseWrite(r)
           \/ \E resolution \in Resolutions : ResolveDispute(r, resolution)
    \/ \E status \in Statuses \ {"excused"} : SetManually(status)

Machine ==
    \/ \E s \in Submissions :
           \/ \E place \in {"room", "start", "end"}, verdict \in {"present", "late", "disputed"} :
                  ScanValidated(s, place, verdict)
           \/ ScanWrite(s)
    \/ CloseSession

ReviewNext == Student \/ Teacher \/ Machine

ReviewSpec == ReviewInit /\ [][ReviewNext]_reviewVars

-----------------------------------------------------------------------------
(* Properties *)

\* What may have become of a status a teacher gave, without a dispute.  A
\* rejection leaves an absence that is not marked as set by hand, and a scan
\* validated earlier may flag it again; a row put back to pending before the
\* class was over is closed in person like any other, and may be flagged then.
MayReadAs(status) ==
    CASE status = "rejected" -> {"absent", "disputed"}
      [] status = "pending" /\ mode = "in_person" /\ ended -> {"pending", "absent", "disputed"}
      [] OTHER -> {status}

\* The last word is a teacher's.  Whatever students and reviewers write from rows
\* they read before it, and whatever scans and the close still bring, the record
\* keeps the status a teacher last gave it, with the two exceptions MayReadAs
\* names; or it is contested, and then stands in the list of open disputes.
TeachersWordStands == word # "none" => Open(record) \/ record.status \in MayReadAs(word)

\* An open dispute stays open until a teacher's decision, whatever else is
\* written meanwhile from rows read before the dispute was filed.
OpenDisputeStays == [][Open(record) /\ ~Open(record') => Teacher]_reviewVars

\* "Only absent, late, or incomplete attendance can be excused"
\* (src/backend/src/attendance/attendance.service.ts:630).
OnlyMissesAreExcused ==
    [][record'.status = "excused" /\ record.status # "excused" => record.status \in Excusable]_reviewVars

\* A flag is there "for teacher review"
\* (src/backend/src/attendance/attendance.service.ts:249): what a scan flags
\* enters the list of open disputes.
FlagsAreListed ==
    [][Machine /\ record.status # "disputed" /\ record'.status = "disputed" => Open(record')]_reviewVars
=============================================================================
