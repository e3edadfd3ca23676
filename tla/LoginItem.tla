------------------------------ MODULE LoginItem ------------------------------
(***************************************************************************)
(* "Start at login": a menu item whose check mark and whose default        *)
(* "startAtLogin" are to follow the user's list of login items.            *)
(*                                                                         *)
(* The list belongs to the system.  Each handler here runs on the main     *)
(* thread and runs to its end, but System Preferences may change the list  *)
(* between any two of its calls; an observer is then told through the run  *)
(* loop.  A call may fail: no list, an item that cannot be resolved, an    *)
(* insertion that does nothing.  The program may be quit at any point.     *)
(***************************************************************************)
EXTENDS Integers

CONSTANTS Ours,         \* login items that would point at this program
          Others        \* login items of other programs

ASSUME LoginAssumption == Ours # {} /\ Ours \cap Others = {}

VARIABLES items,        \* the list of login items
          startAtLogin, \* the default: kept over restarts
          checked,      \* the state of the menu item
          pc,           \* where the main thread is in LoginMenuItem's code
          res,          \* isLoginItem's local result
          snapshot,     \* what deleteAppFromLoginItem found to be ours
          observing,    \* LoginItemsChanged is installed
          pending,      \* and it is about to be called
          doubtful      \* history: a call failed or a change went unobserved since
                        \* the list was last dealt with

vars == <<items, startAtLogin, checked, pc, res, snapshot, observing, pending, doubtful>>

Items == Ours \cup Others
Steps == {"off", "starting", "unobserved", "idle", "updating", "adding",
          "removing", "deleting", "marking", "dead"}

TypeOK ==
  /\ items \subseteq Items
  /\ startAtLogin \in BOOLEAN /\ checked \in BOOLEAN
  /\ pc \in Steps
  /\ res \in BOOLEAN
  /\ snapshot \subseteq Items
  /\ observing \in BOOLEAN /\ pending \in BOOLEAN /\ doubtful \in BOOLEAN
-----------------------------------------------------------------------------
Listed == items \cap Ours # {}

\* The items of a snapshot that are found to be ours: those that resolve to
\* this program's path.  `broken` are those that do not resolve, which is all
\* of them if there is no list to take a snapshot of.
OursAmongUnchecked(broken) == (items \cap Ours) \cup broken
OursAmong(broken) == (items \cap Ours) \ broken

\* isLoginItem.
IsLoginItem ==
  \E broken \in SUBSET items :
    /\ res' = (OursAmong(broken) # {})
    /\ doubtful' = (res' # Listed)

\* init, up to the check mark: the list is read and the default overwritten.
LaunchTrustsDefault ==
  /\ pc = "off"
  /\ pc' = "starting"
  /\ res' = startAtLogin
  /\ UNCHANGED <<items, startAtLogin, checked, snapshot, observing, pending, doubtful>>
Launch ==
  /\ pc = "off"
  /\ pc' = "starting"
  /\ IsLoginItem
  /\ UNCHANGED <<items, startAtLogin, checked, snapshot, observing, pending>>

\* setBool: and setCheckMark, in init and in update.
SetCheckMark(from, to) ==
  /\ pc = from
  /\ pc' = to
  /\ startAtLogin' = res /\ checked' = res
  /\ UNCHANGED <<items, res, snapshot, observing, pending, doubtful>>
Start == SetCheckMark("starting", "unobserved")
UpdateDropsNotices ==
  /\ pc = "updating"
  /\ pc' = "idle"
  /\ startAtLogin' = res /\ checked' = res
  /\ pending' = FALSE
  /\ UNCHANGED <<items, res, snapshot, observing, doubtful>>
Update == SetCheckMark("updating", "idle")

\* The rest of init: add the observer, or throw if there is no list.
Observe ==
  /\ pc = "unobserved"
  /\ \/ pc' = "idle" /\ observing' = TRUE
     \/ pc' = "dead" /\ UNCHANGED observing
  /\ UNCHANGED <<items, startAtLogin, checked, res, snapshot, pending, doubtful>>

\* LoginItemsChanged: update reads the list again.
LoginItemsChanged ==
  /\ pc = "idle" /\ pending
  /\ pc' = "updating"
  /\ pending' = FALSE
  /\ IsLoginItem
  /\ UNCHANGED <<items, startAtLogin, checked, snapshot, observing>>
-----------------------------------------------------------------------------
\* toggleLoginItems, on a click.
Toggle ==
  /\ pc = "idle"
  /\ startAtLogin' = ~startAtLogin
  /\ pc' = IF startAtLogin THEN "removing" ELSE "adding"
  /\ UNCHANGED <<items, checked, res, snapshot, observing, pending, doubtful>>

\* addAppAsLoginItem: the insertion may fail; without a list, CFRelease(NULL).
\* The program's own changes need not be told to it.
AddApp ==
  /\ pc = "adding"
  /\ \/ /\ pc' = "marking"
        /\ \E i \in Ours : items' = items \cup {i}
        /\ pending' \in {pending, TRUE}
        /\ doubtful' = FALSE
     \/ pc' = "marking" /\ doubtful' = ~Listed /\ UNCHANGED <<items, pending>>
     \/ pc' = "dead" /\ UNCHANGED <<items, pending, doubtful>>
  /\ UNCHANGED <<startAtLogin, checked, res, snapshot, observing>>

\* deleteAppFromLoginItem: a snapshot, then every item that was ours in it,
\* unless its removal fails.
TakeSnapshot ==
  /\ pc = "removing"
  /\ pc' = "deleting"
  /\ \E broken \in SUBSET items :
       /\ snapshot' = OursAmong(broken)
       /\ doubtful' = (snapshot' # items \cap Ours)
  /\ UNCHANGED <<items, startAtLogin, checked, res, observing, pending>>
DeleteApp ==
  /\ pc = "deleting"
  /\ pc' = "marking"
  /\ \E failed \in SUBSET snapshot :
       /\ items' = items \ (snapshot \ failed)
       /\ doubtful' = (doubtful \/ failed # {})
  /\ snapshot' = {}
  /\ pending' \in {pending, TRUE}
  /\ UNCHANGED <<startAtLogin, checked, res, observing>>

Mark ==
  /\ pc = "marking"
  /\ pc' = "idle"
  /\ checked' = startAtLogin
  /\ UNCHANGED <<items, startAtLogin, res, snapshot, observing, pending, doubtful>>
-----------------------------------------------------------------------------
\* System Preferences, or another program, changes the list.
ListChanged ==
  /\ \E new \in SUBSET Items : new # items /\ items' = new
  /\ pending' = (pending \/ observing)
  /\ doubtful' = (doubtful \/ pc \in {"starting", "unobserved"})
  /\ UNCHANGED <<startAtLogin, checked, pc, res, snapshot, observing>>

\* The program ends, wherever it is; the list and the default stay.
Quit ==
  /\ pc # "off"
  /\ pc' = "off"
  /\ observing' = FALSE /\ pending' = FALSE /\ snapshot' = {}
  /\ UNCHANGED <<items, startAtLogin, checked, res, doubtful>>

Init ==
  /\ items \in SUBSET Items
  /\ startAtLogin = FALSE /\ checked = FALSE
  /\ pc = "off"
  /\ res = FALSE /\ snapshot = {}
  /\ observing = FALSE /\ pending = FALSE /\ doubtful = FALSE

MainThread ==
  \/ Start
  \/ Observe
  \/ Update
  \/ AddApp
  \/ TakeSnapshot
  \/ DeleteApp
  \/ Mark

Next ==
  \/ Launch
  \/ LoginItemsChanged
  \/ Toggle
  \/ MainThread
  \/ ListChanged
  \/ Quit

Spec == Init /\ [][Next]_vars

\* A handler that began goes on, and the run loop gets to the observer's call.
FairSpec == Spec /\ WF_vars(MainThread) /\ SF_vars(LoginItemsChanged)
-----------------------------------------------------------------------------
\* Between two handlers, with no notice on its way, the check mark and the
\* default say what the list says, after any interleaving of clicks, changes by
\* others, quits and launches; only a call that failed, or a change between
\* init's look at the list and its observer, can make it doubtful.
InSync ==
  pc = "idle" /\ ~pending /\ ~doubtful =>
    (checked <=> Listed) /\ (startAtLogin <=> Listed)

\* The program's own steps never add or remove the login item of another program.
OthersKept ==
  [][pc' # pc => items' \cap Others = items \cap Others]_vars

\* Once nobody changes the list any more, the mark comes to agree with it for
\* good between handlers, or is in doubt: no notice is lost.
NoticeSyncs ==
  <>[][UNCHANGED items]_vars => <>[](pc = "idle" /\ ~doubtful => checked = Listed)
=============================================================================
