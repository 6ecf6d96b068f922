------------------------ MODULE CheckInOutRefinement ------------------------
(***************************************************************************)
(* Reader, lines, bridge and GET, seen from the reader's display and from  *)
(* the server's table: a CardService, as long as the reader does not       *)
(* reset.                                                                  *)
(***************************************************************************)
EXTENDS CheckInOut

(* Where the request under way is.                                          *)
Progress ==
    CASE reader # "waiting"                    -> "none"
      [] reader = "waiting" /\ (toBridge # <<>> \/ bridge = "sent") -> "asked"
      [] reader = "waiting" /\ toBridge = <<>> /\ bridge # "sent"
         /\ (bridge = "answered" \/ (toReader # <<>> /\ Head(toReader) \in Answers)) -> "done"
      [] OTHER                                 -> "lost"

Answer ==
    IF Progress # "done" THEN ErrorPage
    ELSE IF bridge = "answered" THEN payload ELSE Head(toReader)

Service == INSTANCE CardService WITH
    request  <- IF reader = "waiting" THEN asked ELSE NoRequest,
    progress <- Progress,
    answer   <- Answer,
    told     <- IF reader = "showing" THEN lcd ELSE ""

(* A display shows the server's word on the card that was laid on the       *)
(* reader, given after it was laid there, or nothing where that word was    *)
(* cut off; and the server's table changes once for it, or later when the   *)
(* display said "Offline"; however the bridge resets, the WiFi goes, GETs   *)
(* fail and bodies are empty, until the reader resets.                      *)
ImplementsCardService ==
    Service!Init /\ [][readerResets' = 0 => [Service!Next]_(Service!serviceVars)]_checkVars

=============================================================================
