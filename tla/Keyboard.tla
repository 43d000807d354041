------------------------------ MODULE Keyboard ------------------------------
(***************************************************************************)
(* kernel/src/ps2.c: the keyboard interrupt handler and the function that  *)
(* waits for a character.  The handler runs between any two memory         *)
(* accesses of the function.                                               *)
(***************************************************************************)
EXTENDS Integers, FiniteSets

CONSTANTS
    Keys,      \* the keys that are used
    Shifts,    \* KEYCODE_LSHIFT and KEYCODE_RSHIFT
    Letters    \* the keys with an entry in the translation tables

ASSUME KeyAssumption == Keys \subseteq Nat \ {0} /\ Shifts \subseteq Keys /\ Letters \subseteq Keys \ Shifts

VARIABLES
    held,                 \* the keys that are held down
    byte,                 \* what the controller has to read, or NoByte
    irq,                  \* whether the local APIC has a request of the keyboard
    in_service,           \* whether the local APIC waits for an EOI
    g_kbstatus,           \* which keys the kernel takes for pressed
    g_last_char_changed,  \* the last character pressed, Zero for none
    getch,                \* where ps2_getch is
    answer,               \* what it returned, NoAnswer while it runs
    typed,                \* history: the characters pressed since it was called
    overwritten           \* history: whether a key without one was pressed after them

kbVars == <<held, byte, irq, in_service, g_kbstatus, g_last_char_changed, getch, answer, typed,
            overwritten>>
callVars == <<getch, answer>>
historyVars == <<typed, overwritten>>

NoByte == [key |-> 0, pressed |-> FALSE]
Zero == [key |-> 0, upper |-> FALSE]
NoAnswer == [key |-> -1, upper |-> FALSE]
Character == [key : Letters, upper : BOOLEAN]

\* scan_code_to_letter with the two tables: keys without a letter give 0.
upper_case(status) == status \cap Shifts # {}
scan_code_to_letter(key, status) ==
    IF key \in Letters THEN [key |-> key, upper |-> upper_case(status)] ELSE Zero

KeyboardInit ==
    /\ held = {}
    /\ byte = NoByte
    /\ irq = FALSE
    /\ in_service = FALSE
    /\ g_kbstatus = {}
    /\ g_last_char_changed = Zero
    /\ getch = "idle"
    /\ answer = NoAnswer
    /\ typed = {} /\ overwritten = FALSE

-----------------------------------------------------------------------------
(* The controller: a key goes down or up when the last byte has been read. *)
(* Its byte raises the line.  An edge that the I/O APIC passes on becomes a *)
(* request of the local APIC; one that it does not pass on is gone, and    *)
(* the line stays up until the byte is read.                               *)

KeyEvent(key, passed) ==
    /\ byte = NoByte
    /\ held' = IF key \in held THEN held \ {key} ELSE held \cup {key}
    /\ byte' = [key |-> key, pressed |-> key \notin held]
    /\ irq' = (irq \/ passed)
    /\ UNCHANGED <<in_service, g_kbstatus, g_last_char_changed, callVars, historyVars>>

-----------------------------------------------------------------------------
(* The kernel.                                                             *)

\* What the handler makes of a byte.
StatusAfter_Sticky(b) == IF b.pressed THEN g_kbstatus \cup {b.key} ELSE g_kbstatus
StatusAfter(b) == IF b.pressed THEN g_kbstatus \cup {b.key} ELSE g_kbstatus \ {b.key}

\* The local APIC's in-service bit after the handler.
AfterHandler_NoEOI == TRUE
AfterHandler == FALSE

\* kb_handler with a byte to read.
kb_handler ==
    /\ byte # NoByte
    /\ irq' = FALSE
    /\ byte' = NoByte
    /\ g_kbstatus' = StatusAfter(byte)
    /\ g_last_char_changed' =
           IF byte.pressed THEN scan_code_to_letter(byte.key, g_kbstatus') ELSE g_last_char_changed
    /\ typed' = IF byte.pressed THEN typed \cup ({g_last_char_changed'} \ {Zero}) ELSE typed
    /\ overwritten' = (overwritten \/ (byte.pressed /\ g_last_char_changed' = Zero /\ typed # {}))
    /\ in_service' = AfterHandler
    /\ UNCHANGED <<held, callVars>>

\* kb_handler without one returns before it writes to eoi.
NothingToRead ==
    /\ byte = NoByte
    /\ irq' = FALSE
    /\ in_service' = TRUE
    /\ UNCHANGED <<held, byte, g_kbstatus, g_last_char_changed, callVars, historyVars>>

\* ps2_getch: clear the character, wait for another, return what is there then.
ps2_getch_Clear_Keep ==
    /\ getch = "idle"
    /\ getch' = "wait"
    /\ answer' = NoAnswer
    /\ typed' = {} /\ overwritten' = FALSE
    /\ UNCHANGED <<held, byte, irq, in_service, g_kbstatus, g_last_char_changed>>
ps2_getch_Clear ==
    /\ getch = "idle"
    /\ g_last_char_changed' = Zero
    /\ getch' = "wait"
    /\ answer' = NoAnswer
    /\ typed' = {} /\ overwritten' = FALSE
    /\ UNCHANGED <<held, byte, irq, in_service, g_kbstatus>>

ps2_getch_Test ==
    /\ getch = "wait"
    /\ getch' = IF g_last_char_changed = Zero THEN "wait" ELSE "read"
    /\ UNCHANGED <<held, byte, irq, in_service, g_kbstatus, g_last_char_changed, answer, historyVars>>

ps2_getch_Return ==
    /\ getch = "read"
    /\ answer' = g_last_char_changed
    /\ getch' = "idle"
    /\ UNCHANGED <<held, byte, irq, in_service, g_kbstatus, g_last_char_changed, historyVars>>

-----------------------------------------------------------------------------
(* Properties.                                                             *)

KeyboardTypeOK ==
    /\ held \subseteq Keys /\ g_kbstatus \subseteq Keys
    /\ byte \in [key : Keys \cup {0}, pressed : BOOLEAN]
    /\ g_last_char_changed \in Character \cup {Zero}
    /\ answer \in Character \cup {Zero, NoAnswer}
    /\ getch \in {"idle", "wait", "read"}

\* When no byte waits to be read, the keys that the kernel takes for pressed
\* are those that are held down, whatever was pressed and released in between.
KeyStateExact == byte = NoByte => g_kbstatus = held

\* ps2_getch, which "Waits for, and returns pressed character", returns only
\* after a character was pressed since it was called, and returns such a
\* character, never an older one; or 0, when another key was pressed after the
\* character and took its place between the test of the loop and the return.
FreshCharacter ==
    answer # NoAnswer =>
        /\ typed # {}
        /\ answer \in typed \/ (answer = Zero /\ overwritten)
=============================================================================
