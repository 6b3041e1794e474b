---------------------------- MODULE StoreContract ----------------------------
(***************************************************************************)
(* What the clients of an AgManager may rely on when they store accounts,  *)
(* without rows, GTasks, retries or locks.  The edits of an account are    *)
(* kept in memory until a store takes them, all of them at once.  A call   *)
(* has one outcome: it writes every edit it has taken, to its own account  *)
(* and over what that account already held, or it writes nothing and the   *)
(* edits it had taken are lost.  Its caller is told that outcome once.     *)
(* It is what the documentation of ag_account_store_async() and            *)
(* ag_account_store_blocking() promises, made precise.                     *)
(***************************************************************************)
EXTENDS Naturals

CONSTANTS
  Accounts,   (* Accounts of one manager.                                   *)
  Keys,       (* Settings of an account.                                    *)
  Calls,      (* Store calls.                                               *)
  Target,     (* The account of each call.                                  *)
  MaxEdits    (* Values are edit numbers; 0 is a missing setting.           *)

VARIABLES
  unsaved,    (* The edits of each account that no store has taken.         *)
  taken,      (* The edits each call has taken.                             *)
  kept,       (* The settings the database holds for each account.          *)
  deleted,    (* The accounts that were deleted by a store.                 *)
  vanished,   (* Those that another process has deleted.                    *)
  outcome,    (* A call is "open", has "taken" edits, is "ok" or "error".   *)
  told        (* What its caller has been told.                             *)

vars == <<unsaved, taken, kept, deleted, vanished, outcome, told>>

NoValues == [k \in Keys |-> 0]
NoEdits  == [vals |-> NoValues, delete |-> FALSE]

Init ==
  /\ unsaved = [a \in Accounts |-> NoEdits]
  /\ taken = [c \in Calls |-> NoEdits]
  /\ kept = [a \in Accounts |-> NoValues]
  /\ deleted = {}
  /\ vanished = {}
  /\ outcome = [c \in Calls |-> "open"]
  /\ told = [c \in Calls |-> "nothing"]

\* The client sets a key, or marks the account to be deleted.
Edit(a) ==
  /\ \E k \in Keys, v \in 1..MaxEdits :
       unsaved' = [unsaved EXCEPT ![a].vals[k] = v]
  /\ UNCHANGED <<taken, kept, deleted, vanished, outcome, told>>

Mark(a) ==
  /\ unsaved' = [unsaved EXCEPT ![a] = [vals |-> @.vals, delete |-> TRUE]]
  /\ UNCHANGED <<taken, kept, deleted, vanished, outcome, told>>

TakesEdits(c) ==
  /\ outcome[c] = "open"
  /\ taken' = [taken EXCEPT ![c] = unsaved[Target[c]]]
  /\ unsaved' = [unsaved EXCEPT ![Target[c]] = NoEdits]

\* The call that is decided takes its edits now or has done so.
HoldsEdits(c) ==
  \/ TakesEdits(c)
  \/ outcome[c] = "taken" /\ UNCHANGED <<taken, unsaved>>

\* The caller is told the outcome now or by a later Tell.
Decide(c, x, answers) ==
  /\ outcome' = [outcome EXCEPT ![c] = x]
  /\ \/ UNCHANGED told
     \/ \E y \in answers : told' = [told EXCEPT ![c] = y]

\* The call has to wait for the database.
Take(c) ==
  /\ Target[c] \notin deleted
  /\ TakesEdits(c)
  /\ outcome' = [outcome EXCEPT ![c] = "taken"]
  /\ UNCHANGED <<kept, deleted, vanished, told>>

Overlay(old, new) == [k \in Keys |-> IF new[k] = 0 THEN old[k] ELSE new[k]]

\* All the edits of the call are written in one step; nothing more is
\* written to an account that a store has deleted.
Save(c) ==
  LET a    == Target[c]
      mine == taken'[c]
  IN  /\ HoldsEdits(c)
      /\ a \in deleted => mine = NoEdits
      /\ kept' = [kept EXCEPT ![a] = IF mine.delete THEN NoValues
                                     ELSE Overlay(@, mine.vals)]
      /\ deleted' = IF mine.delete /\ a \notin vanished
                    THEN deleted \cup {a} ELSE deleted
      /\ Decide(c, "ok", {"ok"})
      /\ UNCHANGED vanished

\* The call fails: it has written nothing, and what it had taken is lost.
Lose(c) ==
  /\ HoldsEdits(c)
  /\ Decide(c, "error", {"error", "cancelled"})
  /\ UNCHANGED <<kept, deleted, vanished>>

\* The call is refused before it has taken anything.
Refuse(c) ==
  /\ outcome[c] = "open"
  /\ Decide(c, "error", {"error"})
  /\ UNCHANGED <<unsaved, taken, kept, deleted, vanished>>

\* The caller is told the outcome; a GCancellable that was cancelled in the
\* meantime hides it.
Tell(c) ==
  /\ outcome[c] \in {"ok", "error"}
  /\ told[c] = "nothing"
  /\ \E x \in {outcome[c], "cancelled"} : told' = [told EXCEPT ![c] = x]
  /\ UNCHANGED <<unsaved, taken, kept, deleted, vanished, outcome>>

\* Another process deletes an account with its settings.
Vanish(a) ==
  /\ a \notin deleted \cup vanished
  /\ vanished' = vanished \cup {a}
  /\ kept' = [kept EXCEPT ![a] = NoValues]
  /\ UNCHANGED <<unsaved, taken, deleted, outcome, told>>

Next ==
  \/ \E a \in Accounts : Edit(a) \/ Mark(a) \/ Vanish(a)
  \/ \E c \in Calls : Take(c) \/ Save(c) \/ Lose(c) \/ Refuse(c) \/ Tell(c)

Spec == Init /\ [][Next]_vars
=============================================================================
