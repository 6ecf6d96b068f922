----------------------------- MODULE CardService ----------------------------
(***************************************************************************)
(* What somebody at the reader may rely on: one request at a time; the     *)
(* server carries it out at one moment between the card and the display,   *)
(* and the display shows what the server said of this very request; or the *)
(* answer is cut off, and the display stays empty; or request or answer is *)
(* lost, and then the display says so or says nothing, and the request may *)
(* still be carried out, once, later.                                      *)
(***************************************************************************)
EXTENDS Attendance

CONSTANT MaxLate

VARIABLES request, progress, answer, told, late, attendance

serviceVars == <<request, progress, answer, told, late, attendance>>

NoRequest == [command |-> open_door, nfc |-> Nobody]

Init ==
    /\ request = NoRequest
    /\ progress = "none"
    /\ answer = ErrorPage
    /\ told = ""
    /\ late = [r \in Requests |-> 0]
    /\ attendance = NobodyCame

Ask(r) ==
    /\ progress = "none" /\ told = ""
    /\ request' = r
    /\ progress' = "asked"
    /\ UNCHANGED <<answer, told, late, attendance>>

Perform ==
    /\ progress = "asked"
    /\ progress' = "done"
    /\ \/ /\ answer' = FromServer(Verdict(attendance, request))
          /\ attendance' = Entered(attendance, request)
       \/ /\ answer' \in {FromServer(3), ErrorPage}
          /\ UNCHANGED attendance
    /\ UNCHANGED <<request, told, late>>

Lose ==
    /\ progress \in {"asked", "done"}
    /\ progress' = "lost"
    /\ answer' = ErrorPage
    /\ \/ UNCHANGED late
       \/ /\ progress = "asked"
          /\ late[request] < MaxLate
          /\ late' = [late EXCEPT ![request] = @ + 1]
    /\ UNCHANGED <<request, told, attendance>>

CutOff ==
    /\ progress = "done"
    /\ answer' = ErrorPage
    /\ UNCHANGED <<request, progress, told, late, attendance>>

PerformLate(r) ==
    /\ late[r] > 0
    /\ late' = [late EXCEPT ![r] = @ - 1]
    /\ attendance' = Entered(attendance, r)
    /\ UNCHANGED <<request, progress, answer, told>>

Tell ==
    /\ progress \in {"done", "lost"}
    /\ progress' = "none"
    /\ told' = IF progress = "done" THEN Display(request.command, answer)
                                    ELSE "Offline"
    /\ request' = NoRequest
    /\ answer' = ErrorPage
    /\ UNCHANGED <<late, attendance>>

Forget ==
    /\ progress = "none"
    /\ told' = ""
    /\ UNCHANGED <<request, progress, answer, late, attendance>>

Next ==
    \/ \E r \in Requests : Ask(r) \/ PerformLate(r)
    \/ Perform
    \/ CutOff
    \/ Lose
    \/ Tell
    \/ Forget

Spec == Init /\ [][Next]_serviceVars

=============================================================================
