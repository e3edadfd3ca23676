--------------------------- MODULE LoginItemProofs ---------------------------
(***************************************************************************)
(* The check mark of "Start at login" agrees with the list of login items, *)
(* for any login items of this and of other programs.                      *)
(*                                                                         *)
(* InSync speaks of the moments between two handlers only; the invariant   *)
(* says what each step of a handler may count on, provided no notice is on *)
(* its way and nothing is doubtful: what was read from the list is still   *)
(* true.  For that the observer must be there in every later step.         *)
(***************************************************************************)
EXTENDS LoginItem, TLAPS

Serving == {"idle", "updating", "adding", "removing", "deleting", "marking"}
Certain == ~pending /\ ~doubtful

\* Who toggles knows what the default was set to.
ToggleInv ==
  /\ pc = "adding" => startAtLogin
  /\ pc \in {"removing", "deleting"} => ~startAtLogin

\* What was read or written still agrees with the list.
AgreeInv ==
  Certain =>
    /\ pc \in {"starting", "updating"} => (res <=> Listed)
    /\ pc \in {"unobserved", "idle", "marking"} => (startAtLogin <=> Listed)
    /\ pc \in {"unobserved", "idle"} => (checked <=> Listed)
    /\ pc = "deleting" => snapshot = items \cap Ours

SyncInv ==
  /\ TypeOK
  /\ snapshot \subseteq Ours
  /\ pc \in Serving => observing
  /\ ToggleInv
  /\ AgreeInv

USE DEF Steps, Serving, Certain, Items

\* The launch may find any list; nothing is claimed before it is read.
LEMMA SyncInit == Init => SyncInv
  BY DEF Init, SyncInv, TypeOK, ToggleInv, AgreeInv

\* What isLoginItem returns is true of the list, or in doubt.
LEMMA LooksUp ==
  ASSUME IsLoginItem, items' = items
  PROVE  /\ res' \in BOOLEAN /\ doubtful' \in BOOLEAN
         /\ ~doubtful' => (res' <=> Listed')
  BY DEF IsLoginItem, Listed

LEMMA SyncStep ==
  ASSUME SyncInv, [Next]_vars
  PROVE  SyncInv'
<1> USE LoginAssumption DEF SyncInv, TypeOK, ToggleInv, AgreeInv
<1>1. CASE Launch
  BY <1>1, LooksUp DEF Launch
<1>2. CASE LoginItemsChanged
  BY <1>2, LooksUp DEF LoginItemsChanged
<1>3. CASE Toggle
  BY <1>3 DEF Toggle
<1>4. CASE Start
  BY <1>4 DEF Start, SetCheckMark, Listed
<1>5. CASE Update
  BY <1>5 DEF Update, SetCheckMark, Listed
<1>6. CASE Observe
  BY <1>6 DEF Observe, Listed
<1>7. CASE AddApp
  BY <1>7 DEF AddApp, Listed
<1>8. CASE TakeSnapshot
  BY <1>8 DEF TakeSnapshot, OursAmong
<1>9. CASE DeleteApp
  <2>1. PICK failed \in SUBSET snapshot :
          /\ items' = items \ (snapshot \ failed)
          /\ doubtful' = (doubtful \/ failed # {})
    BY <1>9 DEF DeleteApp
  <2>2. Certain' => Certain /\ failed = {}
    BY <1>9, <2>1 DEF DeleteApp
  <2>3. Certain' => ~Listed'
    BY <1>9, <2>1, <2>2 DEF DeleteApp, Listed
  <2> QED
    BY <1>9, <2>1, <2>3 DEF DeleteApp
<1>10. CASE Mark
  BY <1>10 DEF Mark, Listed
<1>11. CASE ListChanged
  BY <1>11 DEF ListChanged
<1>12. CASE Quit
  BY <1>12 DEF Quit
<1>13. CASE UNCHANGED vars
  BY <1>13 DEF vars, Listed
<1> QED
  BY <1>1, <1>2, <1>3, <1>4, <1>5, <1>6, <1>7, <1>8, <1>9, <1>10, <1>11, <1>12, <1>13
     DEF Next, MainThread

LEMMA Synchronised == Spec => []SyncInv
  BY SyncInit, SyncStep, PTL DEF Spec

\* Between handlers, with no notice under way and nothing doubtful, the check
\* mark and the default say what the list says (init, update, toggleLoginItems).
THEOREM MarkAgrees == Spec => []InSync
<1>1. SyncInv => InSync
  BY DEF SyncInv, AgreeInv, InSync
<1> QED BY <1>1, Synchronised, PTL

\* Adding and deleting the program's own login item, whatever fails and whatever
\* changes in between, leaves those of other programs alone.
THEOREM LeavesOthers == Spec => OthersKept
<1>1. ASSUME SyncInv, [Next]_vars, pc' # pc
      PROVE  items' \cap Others = items \cap Others
  <2> USE <1>1, LoginAssumption DEF SyncInv
  <2>1. CASE AddApp
    BY <2>1 DEF AddApp
  <2>2. CASE DeleteApp
    BY <2>2 DEF DeleteApp
  <2>3. CASE ListChanged
    BY <2>3 DEF ListChanged
  <2>4. CASE items' = items
    BY <2>4
  <2> QED
    BY <2>1, <2>2, <2>3, <2>4
       DEF Next, MainThread, Launch, LoginItemsChanged, Toggle, Start, Update,
           SetCheckMark, Observe, TakeSnapshot, Mark, Quit, vars
<1> QED BY <1>1, Synchronised, PTL DEF Spec, OthersKept
=============================================================================
