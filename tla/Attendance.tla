----------------------------- MODULE Attendance -----------------------------
(***************************************************************************)
(* What is said on the two hops of check in/out: the commands of the card  *)
(* reader (rfid_read_personal_data.ino), the texts it can get back, and    *)
(* the Django server behind the WiFi bridge.  The server is not part of    *)
(* the repository: it is modelled from the table of its answers that the   *)
(* reader carries as a comment.                                            *)
(***************************************************************************)
EXTENDS Naturals

CONSTANTS
    Cards,          \* the cards that may be laid on the reader
    Members,        \* the cards the server knows
    Nobody          \* the number made of two commands read as one text

ASSUME CardsAssumption == Members \subseteq Cards /\ Nobody \notin Cards

open_door == "0"
check_in  == "1"
check_out == "2"

Commands == {open_door, check_in, check_out}

(* "<command>$<card number>".                                               *)
Requests == [command : Commands, nfc : Cards \cup {Nobody}]

(* The numbers of the reader's table.                                       *)
Flags == 3..10

(* The bridge's own "3" is not the text " 3" it cuts out of an answer       *)
(* {"flag": 3}; an error page matches nothing the reader compares with.     *)
FromServer(n)      == [from |-> "server", flag |-> n]
SomethingWentWrong == [from |-> "bridge", flag |-> 3]
ErrorPage          == [from |-> "server", flag |-> 0]

Answers == {FromServer(n) : n \in Flags} \cup {ErrorPage}
Texts   == Answers \cup {SomethingWentWrong}

-----------------------------------------------------------------------------
(* The server: who is in, and what it says.                                 *)
Verdict(attendance, r) ==
    CASE r.nfc \notin Members                                      -> 9
      [] r.nfc \in Members /\ r.command = open_door                -> 10
      [] r.nfc \in Members /\ r.command = check_in                 ->
            IF attendance[r.nfc] = "in" THEN 4 ELSE 7
      [] r.nfc \in Members /\ r.command = check_out                ->
            IF attendance[r.nfc] = "in" THEN 8
            ELSE IF attendance[r.nfc] = "out" THEN 6 ELSE 5

Entered(attendance, r) ==
    CASE Verdict(attendance, r) = 7 -> [attendance EXCEPT ![r.nfc] = "in"]
      [] Verdict(attendance, r) = 8 -> [attendance EXCEPT ![r.nfc] = "out"]
      [] OTHER                      -> attendance

NobodyCame == [m \in Members |-> "none"]

-----------------------------------------------------------------------------
(* uploadstatus and open_the_door: what a text puts on the display after    *)
(* the command that was given.  "" is an empty display.                     *)
Uploaded == <<"Already Checked In", "Already Checked In First",
              "Already Checked Out", "Successfully Checked In",
              "Successfully Checked Out">>

Display(command, text) ==
    CASE text = SomethingWentWrong -> "Offline"
      [] text = FromServer(9)      -> "Anonymous"
      [] text = FromServer(10) /\ command = open_door -> "Door Open"
      [] text \in {FromServer(n) : n \in 4..8} /\ command # open_door ->
            Uploaded[text.flag - 3]
      [] OTHER -> ""

Displays == {"", "Press button", "Please wait...", "Place your card:", "Offline",
             "Anonymous", "Door Open"} \cup {Uploaded[i] : i \in 1..5}

=============================================================================
