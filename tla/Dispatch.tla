------------------------------ MODULE Dispatch ------------------------------
(***************************************************************************)
(* What a mailer promises its caller, whatever it does to keep it.         *)
(*                                                                         *)
(* A run is handed a set of deliveries it owes.  It settles each of them   *)
(* at most once, as delivered or failed, and ends with one report.  The    *)
(* report "ok" says that every delivery was made; a run may give up and    *)
(* report "failed" at any time, leaving deliveries open.  Nothing happens  *)
(* in a run's name before it starts or after its report.                   *)
(*                                                                         *)
(* Apsend shows that cmd/apsend implements this specification.             *)
(***************************************************************************)
CONSTANTS Run,       \* the executions of the mailer
          Item       \* whatever a run may have to deliver

VARIABLES owed,      \* owed[r]: the deliveries run r was asked for
          settled,   \* settled[r][d]: what became of delivery d
          report     \* report[r]: how far run r is, or what it reported

vars == <<owed, settled, report>>

Verdict == {"delivered", "failed"}
Report  == {"ok", "failed"}

TypeOK ==
  /\ owed    \in [Run -> SUBSET Item]
  /\ settled \in [Run -> [Item -> Verdict \cup {"open"}]]
  /\ report  \in [Run -> Report \cup {"idle", "running"}]

Open(r) == {d \in owed[r] : settled[r][d] = "open"}

Init ==
  /\ owed    = [r \in Run |-> {}]
  /\ settled = [r \in Run |-> [d \in Item |-> "open"]]
  /\ report  = [r \in Run |-> "idle"]

\* The caller executes the mailer for the deliveries S.
Start(r, S) ==
  /\ report[r] = "idle"
  /\ report' = [report EXCEPT ![r] = "running"]
  /\ owed'   = [owed EXCEPT ![r] = S]
  /\ UNCHANGED settled

\* One piece of work may settle several deliveries: a message posted to a
\* shared inbox reaches every actor behind it.
Settle(r) ==
  /\ report[r] = "running"
  /\ \E S \in (SUBSET Open(r)) \ {{}}, v \in Verdict :
       settled' = [settled EXCEPT ![r] =
                     [d \in Item |-> IF d \in S THEN v ELSE @[d]]]
  /\ UNCHANGED <<owed, report>>

ReportOk(r) ==
  /\ report[r] = "running"
  /\ \A d \in owed[r] : settled[r][d] = "delivered"
  /\ report' = [report EXCEPT ![r] = "ok"]
  /\ UNCHANGED <<owed, settled>>

ReportFailed(r) ==
  /\ report[r] = "running"
  /\ report' = [report EXCEPT ![r] = "failed"]
  /\ UNCHANGED <<owed, settled>>

Work(r) == Settle(r) \/ ReportOk(r) \/ ReportFailed(r)

Next == \E r \in Run : Work(r) \/ \E S \in SUBSET Item : Start(r, S)

SafeSpec == Init /\ [][Next]_vars

\* A run that has started reports: it does not work on one delivery for ever.
Spec == SafeSpec /\ \A r \in Run : WF_vars(ReportOk(r) \/ ReportFailed(r))
=============================================================================
