----------------------------- MODULE MCServices -----------------------------
(***************************************************************************)
(* An instance at work: a lesson of a few requests, on a day and into the  *)
(* next (Lesson), and what is done for a call before and beside it: the    *)
(* limits of requests (Ceilings), the documents of clients (Documents),    *)
(* one request to Drive (Calls), the programs that prove a task (Solvers)  *)
(* and the process itself (Process).  They share no state, and each        *)
(* behaviour is of one of them; the others stand as they start.            *)
(***************************************************************************)
EXTENDS Lesson, Ceilings, Documents, Calls, Solvers, Process, TLC

PausesOfCalls == <<1, 3>>

\* What is only ever compared for equality: requests under way, whichever part they
\* are of, and the clients.  They stand for the choices and for names of requests
\* too, which are alike as well.
Alike == Permutations(AnswerChoices) \cup Permutations(ClientIds)

VARIABLE part
services_vars == <<vars, ceiling_vars, document_vars, call_vars, solver_vars, process_vars, part>>

ServicesInit ==
    /\ part \in {"lesson", "ceilings", "documents", "calls", "solvers", "process"}
    /\ Init
    /\ part # "lesson" => profile = New(CHOOSE lesson \in Lessons : TRUE, 0)
    /\ CeilingsInit
    /\ DocumentsInit
    /\ CallsInit
    /\ part # "calls" => ends = 0 /\ op = "read"
    /\ SolversInit
    /\ ProcessInit

\* The others may stop, at their ends and at their bounds.
Stops == part # "lesson" /\ UNCHANGED services_vars

ServicesNext ==
    \/ /\ part = "lesson" /\ Next
       /\ UNCHANGED <<ceiling_vars, document_vars, call_vars, solver_vars, process_vars, part>>
    \/ /\ part = "ceilings" /\ CeilingsNext
       /\ UNCHANGED <<vars, document_vars, call_vars, solver_vars, process_vars, part>>
    \/ /\ part = "documents" /\ DocumentsNext
       /\ UNCHANGED <<vars, ceiling_vars, call_vars, solver_vars, process_vars, part>>
    \/ /\ part = "calls" /\ CallsNext
       /\ UNCHANGED <<vars, ceiling_vars, document_vars, solver_vars, process_vars, part>>
    \/ /\ part = "solvers" /\ SolversNext
       /\ UNCHANGED <<vars, ceiling_vars, document_vars, call_vars, process_vars, part>>
    \/ /\ part = "process" /\ ProcessNext
       /\ UNCHANGED <<vars, ceiling_vars, document_vars, call_vars, solver_vars, part>>
    \/ Stops

ServicesSpec == ServicesInit /\ [][ServicesNext]_services_vars
=============================================================================
