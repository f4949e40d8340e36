----------------------------- MODULE ToastLayer -----------------------------
(***************************************************************************)
(* The stack of transient messages at the bottom of the window             *)
(* (app/qml/ToastLayer.qml).  A toast carries a serial, leaves when its    *)
(* timer fires, and is pushed out by newer ones.  The timer runs only      *)
(* while the pointer is not over the toast; how long it runs is left out,  *)
(* so it may fire at any moment it is running.                             *)
(***************************************************************************)
EXTENDS Integers, Sequences

CONSTANTS
    Body,         \* the texts
    maxVisible,   \* how many toasts fit, 4 in the window
    MaxPosts      \* bound: toasts posted in all

ASSUME ToastAssumption == maxVisible \in Nat \ {0} /\ MaxPosts \in Nat

VARIABLES
    toasts,       \* the ListModel, oldest first
    nextSerial,
    hovered,      \* the serial of the toast under the pointer, if any
    expired       \* history: the serials whose timer fired

toastVars == <<toasts, nextSerial, hovered, expired>>

Toast == [serial : Nat, body : Body]

SerialsOf(ts) == {ts[i].serial : i \in DOMAIN ts}
OnScreen == SerialsOf(toasts)

ToastInit ==
    /\ toasts = <<>>
    /\ nextSerial = 0
    /\ hovered = {}
    /\ expired = {}

-----------------------------------------------------------------------------
(* Mutant: the loop stops one toast early. *)
NewestAndOne(ts) ==
    IF Len(ts) > maxVisible + 1 THEN SubSeq(ts, Len(ts) - maxVisible, Len(ts)) ELSE ts

(* while (toasts.count > maxVisible) toasts.remove(0) *)
Newest(ts) ==
    IF Len(ts) > maxVisible THEN SubSeq(ts, Len(ts) - maxVisible + 1, Len(ts)) ELSE ts

(* post, once for each body in turn: evicting after every append leaves the
   same toasts as evicting after the last one. *)
Post(bodies) ==
    /\ toasts' = Newest(toasts \o
                     [i \in DOMAIN bodies |->
                         [serial |-> nextSerial + i - 1, body |-> bodies[i]]])
    /\ nextSerial' = nextSerial + Len(bodies)
    /\ hovered' = hovered \cap SerialsOf(toasts')
    /\ UNCHANGED expired

(* The row with this serial; serials are never given twice. *)
RowOf(ts, serial) == CHOOSE i \in DOMAIN ts : ts[i].serial = serial

WithoutRow(ts, i) == SubSeq(ts, 1, i - 1) \o SubSeq(ts, i + 1, Len(ts))

(* Mutant: the toast whose timer fires is taken to be the oldest one. *)
DismissOldest(ts, serial) == Tail(ts)

(* Mutant: the search stops one row early. *)
DismissButLast(ts, serial) ==
    IF serial \in SerialsOf(SubSeq(ts, 1, Len(ts) - 1))
    THEN WithoutRow(ts, RowOf(ts, serial)) ELSE ts

(* dismiss removes the row with this serial, if there is one. *)
Dismiss(ts, serial) ==
    IF serial \in SerialsOf(ts) THEN WithoutRow(ts, RowOf(ts, serial)) ELSE ts

(* The timer of a toast that the pointer is not over fires. *)
Expire(serial) ==
    /\ serial \in OnScreen \ (hovered \cup expired)
    /\ toasts' = Dismiss(toasts, serial)
    /\ expired' = expired \cup {serial}
    /\ hovered' = hovered \cap SerialsOf(toasts')
    /\ UNCHANGED nextSerial

(* The pointer moves onto a toast, or off it. *)
Hover ==
    /\ \E under \in {{}} \cup {{s} : s \in OnScreen} :
           under # hovered /\ hovered' = under
    /\ UNCHANGED <<toasts, nextSerial, expired>>

ToastNext ==
    \/ nextSerial < MaxPosts /\ \E b \in Body : Post(<<b>>)
    \/ \E s \in OnScreen : Expire(s)
    \/ Hover

ToastSpec == ToastInit /\ [][ToastNext]_toastVars

(* A QML Timer that is running fires: it is restarted by leaving a toast,
   so it owes nothing to a toast that is entered again and again. *)
FairToastSpec ==
    ToastSpec /\ \A s \in 0 .. MaxPosts - 1 : WF_toastVars(Expire(s))

-----------------------------------------------------------------------------
(* The ListModel holds at most maxVisible toasts in the order they were
   posted, newest at the bottom, and the pointer is over one of them or over
   none (ToastLayer.qml:6, 20-23). *)
ToastTypeOK ==
    /\ toasts \in Seq(Toast)
    /\ Len(toasts) <= maxVisible
    /\ \A i, j \in DOMAIN toasts : i < j => toasts[i].serial < toasts[j].serial
    /\ \A s \in OnScreen : s < nextSerial
    /\ nextSerial \in Nat
    /\ hovered \subseteq OnScreen
    /\ \A s, t \in hovered : s = t
    /\ expired \subseteq 0 .. nextSerial - 1

(* A toast that is gone was dismissed by its own timer or pushed out by
   maxVisible newer ones: no other toast's timer takes it ("Removal is by
   serial, never by row index", ToastLayer.qml:15-17). *)
NoToastTaken ==
    \A s \in 0 .. nextSerial - 1 :
        s \in OnScreen \/ s \in expired \/ s + maxVisible < nextSerial

(* A toast that the pointer stays away from goes, whatever happens to the
   ones around it. *)
ToastsGo ==
    \A s \in 0 .. MaxPosts - 1 :
        (s \in OnScreen /\ [](s \notin hovered)) ~> s \notin OnScreen
=============================================================================
