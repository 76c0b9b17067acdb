--------------------------- MODULE PlayerManager ---------------------------
(***************************************************************************)
(* class PlayerManager (PlayerManager.hpp) with the players that register  *)
(* there (Player.hpp), on the lock they share, FastSpinlock, step by step. *)
(* Threads construct, start and reset players; what they do to one player  *)
(* is in turn, as its SyncExecutable lock is for.  Players are not         *)
(* destroyed: ~Player is an assertion that fails.                          *)
(*                                                                         *)
(* call[t] is the method of the registry thread t is in, for which player, *)
(* and at which statement:                                                 *)
(*   register, store    ++mCurrentIssueId, then mPlayerMap[...] = player   *)
(*   erase              mPlayerMap.erase(playerId)                         *)
(*   registered, erased the return of the two, through the lock's release  *)
(*   assign, reset      the caller's assignments after that                *)
(*   reading            GetCurrentPlayers                                  *)
(*                                                                         *)
(* OnTick, which ends Start, changes nothing: the bodies of GCEDispatch    *)
(* and DoSyncAfter are comments.  The buffs, and mHeartBeat with them, are *)
(* only touched behind GetCurrentPlayers, which does not return.           *)
(***************************************************************************)
EXTENDS FastSpinlock

CONSTANTS Players,
          MAX_ISSUE      \* bound: the numbers that are given out

ASSUME PlayersAssumption == MAX_ISSUE \in Nat /\ None \notin Players

VARIABLES mPlayerMap, mCurrentIssueId,
          mPlayerId, mIsAlive,     \* fields of the players
          made,                    \* the players that have been constructed
          call,
          wiped      \* history: the numbers that constructors have erased

registry == <<mPlayerMap, mCurrentIssueId, mPlayerId, mIsAlive, made, call, wiped>>

Numbers == 1 .. MAX_ISSUE

NoCall == [at |-> "none", player |-> None, id |-> -1]

RegistryInit ==
    /\ Init
    /\ mPlayerMap = [n \in Numbers |-> None] /\ mCurrentIssueId = 0
    /\ mPlayerId = [p \in Players |-> -1] /\ mIsAlive = [p \in Players |-> FALSE]
    /\ made = {} /\ call = [t \in Threads |-> NoCall] /\ wiped = {}

\* No thread is in a call for p.  That one call for a player waits for the
\* other is asked of the callers: the code of the calls does not see to it.
AtRest(p) == \A t \in Threads : call[t].player # p

Calls(t, at, p, id) == call' = [call EXCEPT ![t] = [at |-> at, player |-> p, id |-> id]]

Continues(t, from, to) == call[t].at = from /\ call' = [call EXCEPT ![t].at = to]

-----------------------------------------------------------------------------
(***************************************************************************)
(* The calls.  The constructor calls PlayerReset before it has given       *)
(* mPlayerId a value: it unregisters whatever number is there.             *)
(***************************************************************************)
NewPlayer(t, p, garbage) ==
    /\ p \notin made
    /\ made' = made \cup {p}
    /\ EnterWriteLock(t)
    /\ Calls(t, "erase", p, garbage)
    /\ mPlayerId' = [mPlayerId EXCEPT ![p] = garbage]
    /\ UNCHANGED <<mPlayerMap, mCurrentIssueId, mIsAlive, wiped>>

Start(t, p) ==
    /\ p \in made /\ AtRest(p) /\ ~mIsAlive[p]
    /\ mCurrentIssueId + Cardinality({u \in Threads : call[u].at = "register"}) < MAX_ISSUE
    /\ mIsAlive' = [mIsAlive EXCEPT ![p] = TRUE]
    /\ EnterWriteLock(t)
    /\ Calls(t, "register", p, -1)
    /\ UNCHANGED <<mPlayerMap, mCurrentIssueId, mPlayerId, made, wiped>>

PlayerResetLate(t, p) ==   \* mutant: mPlayerId is reset before the player is unregistered
    /\ p \in made /\ AtRest(p)
    /\ EnterWriteLock(t)
    /\ Calls(t, "erase", p, -1)
    /\ UNCHANGED <<mPlayerMap, mCurrentIssueId, mPlayerId, mIsAlive, made, wiped>>

PlayerReset(t, p) ==
    /\ p \in made /\ AtRest(p)
    /\ EnterWriteLock(t)
    /\ Calls(t, "erase", p, mPlayerId[p])
    /\ UNCHANGED <<mPlayerMap, mCurrentIssueId, mPlayerId, mIsAlive, made, wiped>>

\* GetCurrentPlayers takes the lock in its shared mode: nothing after it is
\* reached, here or in the two that call it.
GetCurrentPlayers(t) ==
    /\ EnterReadLock(t)
    /\ Calls(t, "reading", None, -1)
    /\ UNCHANGED <<mPlayerMap, mCurrentIssueId, mPlayerId, mIsAlive, made, wiped>>

DoBuffAllPlayers(t) == GetCurrentPlayers(t)

CheckBuffTimeout(t) == GetCurrentPlayers(t)

-----------------------------------------------------------------------------
(***************************************************************************)
(* With the lock held: RegisterPlayer, whose result is read before the     *)
(* guard's destructor releases the lock, and UnregisterPlayer.             *)
(***************************************************************************)
IssueIdTwice(t) ==   \* mutant: the number is counted up again for the result
    /\ pc[t] = "cs" /\ Continues(t, "register", "store")
    /\ mCurrentIssueId' = mCurrentIssueId + 2
    /\ UNCHANGED <<vars, mPlayerMap, mPlayerId, mIsAlive, made, wiped>>

IssueId(t) ==
    /\ pc[t] = "cs" /\ Continues(t, "register", "store")
    /\ mCurrentIssueId' = mCurrentIssueId + 1
    /\ UNCHANGED <<vars, mPlayerMap, mPlayerId, mIsAlive, made, wiped>>

RegisterPlayer(t) ==
    /\ pc[t] = "cs" /\ call[t].at = "store"
    /\ mPlayerMap' = [mPlayerMap EXCEPT ![mCurrentIssueId] = call[t].player]
    /\ Calls(t, "registered", call[t].player, mCurrentIssueId)
    /\ UNCHANGED <<vars, mCurrentIssueId, mPlayerId, mIsAlive, made, wiped>>

UnregisterPlayer(t) ==
    /\ pc[t] = "cs" /\ Continues(t, "erase", "erased")
    /\ mPlayerMap' = [n \in Numbers |-> IF n = call[t].id THEN None ELSE mPlayerMap[n]]
    /\ wiped' = wiped \cup {n \in Numbers : n = call[t].id
                                            /\ mPlayerMap[n] \notin {None, call[t].player}}
    /\ UNCHANGED <<vars, mCurrentIssueId, mPlayerId, mIsAlive, made>>

\* The guard's destructor.
Leave(t) ==
    /\ LeaveWriteLock(t)
    /\ Continues(t, "registered", "assign") \/ Continues(t, "erased", "reset")
    /\ UNCHANGED <<mPlayerMap, mCurrentIssueId, mPlayerId, mIsAlive, made, wiped>>

\* The rest of Start and of PlayerReset, after the lock is released.
AssignIdLate(t) ==   \* mutant: mCurrentIssueId is read after the lock is released
    /\ call[t].at = "assign"
    /\ mPlayerId' = [mPlayerId EXCEPT ![call[t].player] = mCurrentIssueId]
    /\ call' = [call EXCEPT ![t] = NoCall]
    /\ UNCHANGED <<vars, mPlayerMap, mCurrentIssueId, mIsAlive, made, wiped>>

AssignId(t) ==
    /\ call[t].at = "assign"
    /\ mPlayerId' = [mPlayerId EXCEPT ![call[t].player] = call[t].id]
    /\ call' = [call EXCEPT ![t] = NoCall]
    /\ UNCHANGED <<vars, mPlayerMap, mCurrentIssueId, mIsAlive, made, wiped>>

ResetFields(t) ==
    /\ call[t].at = "reset"
    /\ mPlayerId' = [mPlayerId EXCEPT ![call[t].player] = -1]
    /\ mIsAlive' = [mIsAlive EXCEPT ![call[t].player] = FALSE]
    /\ call' = [call EXCEPT ![t] = NoCall]
    /\ UNCHANGED <<vars, mPlayerMap, mCurrentIssueId, made, wiped>>

-----------------------------------------------------------------------------
Begins(t) ==
    /\ call[t] = NoCall
    /\ \/ \E p \in Players : Start(t, p) \/ PlayerReset(t, p)
       \/ \E p \in Players : \E n \in Numbers \cup {-1} : NewPlayer(t, p, n)
       \/ DoBuffAllPlayers(t) \/ CheckBuffTimeout(t)

\* What the lock does by itself.
Locks(t) ==
    /\ WriteGate(t) \/ WriteAdd(t) \/ WriteDrain(t) \/ WriteUndo(t)
       \/ ReadGate(t) \/ ReadCheck(t)
    /\ UNCHANGED registry

GoesOn(t) ==
    Locks(t) \/ IssueId(t) \/ RegisterPlayer(t) \/ UnregisterPlayer(t) \/ Leave(t)
        \/ AssignId(t) \/ ResetFields(t)

RegistryNext == \E t \in Threads : Begins(t) \/ GoesOn(t)

RegistrySpec == RegistryInit /\ [][RegistryNext]_<<vars, registry>>

\* The operating system keeps running every thread that is in a call.
FairRegistrySpec == RegistrySpec /\ \A t \in Threads : WF_<<vars, registry>>(GoesOn(t))

-----------------------------------------------------------------------------
RegistryTypeOK ==
    /\ mPlayerMap \in [Numbers -> Players \cup {None}]
    /\ mCurrentIssueId \in 0 .. MAX_ISSUE
    /\ mPlayerId \in [Players -> Numbers \cup {-1}]
    /\ mIsAlive \in [Players -> BOOLEAN]
    /\ made \subseteq Players /\ wiped \subseteq Numbers
    /\ call \in [Threads -> [at : {"none", "register", "store", "erase", "registered",
                                   "erased", "assign", "reset", "reading"},
                             player : Players \cup {None}, id : Numbers \cup {-1}]]

(***************************************************************************)
(* No two players have the same number, and none has one that has not been *)
(* given out: registrations that race for the lock never lose an increment *)
(* and each gets its own number back.                                      *)
(***************************************************************************)
NumbersDiffer ==
    /\ \A p, q \in Players :
          AtRest(p) /\ AtRest(q) /\ mPlayerId[p] # -1 /\ mPlayerId[p] = mPlayerId[q] => p = q
    /\ \A p \in Players : AtRest(p) => mPlayerId[p] <= mCurrentIssueId

(***************************************************************************)
(* Between the calls made for it a player is registered, under the number  *)
(* it was given and no other, exactly while it is alive; only a            *)
(* constructor that ran over an uninitialised number may have taken it out.*)
(***************************************************************************)
RegistryExact ==
    \A p \in Players : AtRest(p) =>
        /\ {n \in Numbers : mPlayerMap[n] = p}
              = IF mIsAlive[p] THEN {mPlayerId[p]} \ wiped ELSE {}
        /\ mIsAlive[p] => mPlayerId[p] \in Numbers
=============================================================================
