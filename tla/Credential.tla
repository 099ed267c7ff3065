------------------------------ MODULE Credential ------------------------------
(***************************************************************************)
(* Rotating OAuth credentials shared by the agents of one host: the store  *)
(* (src/src/auth/auth-store.ts), the refresh under the lockfile that       *)
(* getAuth() hands out (auth.ts) and the refresh of the transport, which   *)
(* looks at the store first and takes no lock (auth-strategies.ts,         *)
(* llm/transport/auth-refresh.ts).                                         *)
(*                                                                         *)
(* A credential is the number of its rotation: access token and refresh    *)
(* token rotate together, and the server honours the last pair it issued.  *)
(* One lockfile is modelled: all guarded tasks are of one provider.        *)
(***************************************************************************)
EXTENDS PidLock

CONSTANTS
    Provider,    \* entries of the store
    ProviderOf,  \* ProviderOf[t]: the entry t authenticates with
    Guarded,     \* tasks that refresh through getAuth(); the others are sends
    MaxExpiries  \* bound: access tokens that run out in a behaviour

ASSUME ProviderOfAssumption == ProviderOf \in [Task -> Provider]
ASSUME GuardedAssumption    ==
    Guarded \subseteq Task /\ \A t, u \in Guarded : ProviderOf[t] = ProviderOf[u]
ASSUME ExpiriesAssumption   == MaxExpiries \in Nat

VARIABLES
    store,    \* the store's file
    issued,   \* server: the rotation it honours
    valid,    \* server: its access token has not run out
    token,    \* token[t]: auth.token, or lastIssuedToken
    at,       \* at[t]: where t's refresh stands
    reply,    \* reply[t]: the rotation the server granted
    image,    \* image[t]: the file as load() returned it
    lost,     \* history: entries whose rotation never reached the store
    undone,   \* history: entries another entry's write has put back
    breached, \* history: a lock deadline has passed, or a waiter broke a live lock
    refused,  \* history: tasks the server answered with invalid_grant
    expiries  \* history: access tokens that ran out

server  == <<issued, valid, expiries>>
history == <<lost, undone, breached, refused>>
refresh == <<token, at, reply, image>>
cvars   == <<vars, store, server, refresh, history>>

Steps == {"idle", "adopted", "sent", "granted", "saving", "settled"}

CInit ==
    /\ Init
    /\ store = [q \in Provider |-> 0]
    /\ issued = [q \in Provider |-> 0] /\ valid = [q \in Provider |-> TRUE]
    /\ token = [t \in Task |-> 0]
    /\ at = [t \in Task |-> "idle"]
    /\ reply = [t \in Task |-> 0]
    /\ image = [t \in Task |-> store]
    /\ lost = {} /\ undone = {} /\ breached = FALSE /\ refused = {} /\ expiries = 0

-----------------------------------------------------------------------------
(* Helpers                                                                  *)

Stored(t) == store[ProviderOf[t]]

\* The server answers 401, or the token's expiry is near.
Stale(t) == token[t] # issued[ProviderOf[t]] \/ ~valid[ProviderOf[t]]

\* t runs: no other task of its process is inside synchronous code.
Runs(t) ==
    /\ pc[t] # "dead"
    /\ ~Busy(ProcOf[t])
    /\ \A u \in Task \ {t} : ProcOf[u] = ProcOf[t] => at[u] # "saving"

Step(t, s) == at' = [at EXCEPT ![t] = s]

\* Ask the server for a new pair with the refresh token r.
Send(t, r) ==
    /\ Step(t, "sent")
    /\ reply' = [reply EXCEPT ![t] = r]
    /\ UNCHANGED token

\* Another process has refreshed: its token is taken from the store.
Adopt(t, s) ==
    /\ Step(t, s)
    /\ token' = [token EXCEPT ![t] = Stored(t)]
    /\ UNCHANGED reply

-----------------------------------------------------------------------------
(* A refresh under the lock: doRefresh and doRefreshUnlocked                *)

\* withLock() is called.
AskForLock(t) ==
    /\ t \in Guarded /\ Runs(t) /\ at[t] = "idle" /\ Stale(t)
    /\ Call(t)
    /\ UNCHANGED <<store, server, refresh, history>>

\* A step of the acquirer.  What ends the exclusion is remembered: a deadline
\* that passes, and a stale lock broken once a live process has replaced it.
LockStep(t) ==
    /\ \A u \in Task \ {t} : ProcOf[u] = ProcOf[t] => at[u] # "saving"
    /\ Attempt(t) \/ LinkThrows(t)
    /\ breached' = (breached \/ pc'[t] = "unlocked" \/ (pc[t] = "breaking" /\ lock \in alive))
    /\ UNCHANGED <<store, server, refresh, lost, undone, refused>>

\* Mutant: the refresh token read before the lock was asked for is sent.
ReadUnderLockStale(t) ==
    /\ pc[t] \in {"holding", "unlocked"} /\ at[t] = "idle" /\ Runs(t)
    /\ Send(t, token[t])
    /\ UNCHANGED <<vars, store, server, image, history>>

\* The store is read again, holding the lock or for want of it.
ReadUnderLock(t) ==
    /\ pc[t] \in {"holding", "unlocked"} /\ at[t] = "idle" /\ Runs(t)
    /\ IF Stored(t) # token[t] THEN Adopt(t, "settled") ELSE Send(t, Stored(t))
    /\ UNCHANGED <<vars, store, server, image, history>>

\* Mutant: release() is not in a finally.
LetGoOnSuccess(t) ==
    /\ t \in Guarded \ refused /\ Runs(t) /\ at[t] = "settled"
    /\ Release(t) \/ FinishUnlocked(t)
    /\ Step(t, "idle")
    /\ UNCHANGED <<store, server, token, reply, image, history>>

\* fn has settled, either way: the lock is released.
LetGo(t) ==
    /\ t \in Guarded /\ Runs(t) /\ at[t] = "settled"
    /\ Release(t) \/ FinishUnlocked(t)
    /\ Step(t, "idle")
    /\ UNCHANGED <<store, server, token, reply, image, history>>

-----------------------------------------------------------------------------
(* A refresh of the transport: withAuthRefresh and buildStoredOAuthRefresh  *)

(***************************************************************************)
(* After a 401: the stored token if it differs, else, and after a second   *)
(* 401, a refresh with the stored refresh token, in the same turn of the   *)
(* event loop.                                                             *)
(***************************************************************************)
Unauthorized(t) ==
    /\ t \notin Guarded /\ t \notin refused /\ Runs(t)
    /\ at[t] \in {"idle", "adopted"} /\ Stale(t)
    /\ IF at[t] = "idle" /\ Stored(t) # token[t]
       THEN Adopt(t, "adopted") ELSE Send(t, Stored(t))
    /\ UNCHANGED <<vars, store, server, image, history>>

\* The request goes through; the send is over.
Authorized(t) ==
    /\ t \notin Guarded /\ Runs(t) /\ at[t] \in {"adopted", "settled"}
    /\ at[t] = "adopted" => ~Stale(t)
    /\ Step(t, "idle")
    /\ UNCHANGED <<vars, store, server, token, reply, image, history>>

-----------------------------------------------------------------------------
(* The server and the write of the new pair                                 *)

\* An access token runs out.
Expire(q) ==
    /\ valid[q] /\ expiries < MaxExpiries
    /\ valid' = [valid EXCEPT ![q] = FALSE]
    /\ expiries' = expiries + 1
    /\ UNCHANGED <<vars, store, issued, refresh, history>>

(***************************************************************************)
(* The server rotates, or answers invalid_grant to a refresh token it no   *)
(* longer honours.  It may do so for a process that has ended.             *)
(***************************************************************************)
ServerAnswers(t) ==
    LET q == ProviderOf[t] IN
    /\ at[t] = "sent"
    /\ IF reply[t] = issued[q]
       THEN /\ issued' = [issued EXCEPT ![q] = @ + 1]
            /\ valid' = [valid EXCEPT ![q] = TRUE]
            /\ reply' = [reply EXCEPT ![t] = @ + 1]
            /\ Step(t, "granted")
            /\ lost' = IF pc[t] = "dead" THEN lost \cup {q} ELSE lost
            /\ UNCHANGED refused
       ELSE /\ refused' = IF pc[t] = "dead" THEN refused ELSE refused \cup {t}
            /\ Step(t, "settled")
            /\ UNCHANGED <<issued, valid, reply, lost>>
    /\ UNCHANGED <<vars, store, token, image, expiries, undone, breached>>

\* The request fails on the way, or the server's answer is lost.
NetworkFails(t) ==
    /\ at[t] \in {"sent", "granted"} /\ Runs(t)
    /\ Step(t, "settled")
    /\ lost' = IF at[t] = "granted" THEN lost \cup {ProviderOf[t]} ELSE lost
    /\ UNCHANGED <<vars, store, server, token, reply, image, undone, breached, refused>>

\* AuthStore.set reads the file ...
Load(t) ==
    /\ at[t] = "granted" /\ Runs(t)
    /\ image' = [image EXCEPT ![t] = store]
    /\ Step(t, "saving")
    /\ UNCHANGED <<vars, store, server, token, reply, history>>

\* Mutant: only the running process learns the new pair.
SaveInMemory(t) ==
    /\ at[t] = "saving" /\ pc[t] # "dead"
    /\ store' = image[t]
    /\ token' = [token EXCEPT ![t] = reply[t]]
    /\ Step(t, "settled")
    /\ UNCHANGED <<vars, server, reply, image, history>>

\* ... and renames a new one into place: the whole file, with t's entry new.
Save(t) ==
    /\ at[t] = "saving" /\ pc[t] # "dead"
    /\ store' = [image[t] EXCEPT ![ProviderOf[t]] = reply[t]]
    /\ token' = [token EXCEPT ![t] = reply[t]]
    /\ Step(t, "settled")
    /\ undone' = undone \cup {q \in Provider \ {ProviderOf[t]} : image[t][q] # store[q]}
    /\ UNCHANGED <<vars, server, reply, image, lost, breached, refused>>

\* A process ends; a pair it was granted and had not saved is lost.
ProcessEnds(p) ==
    /\ Crash(p) \/ (Exit(p) /\ \A t \in Task : ProcOf[t] = p => at[t] # "saving")
    /\ lost' = lost \cup {ProviderOf[t] : t \in {u \in Task : /\ ProcOf[u] = p
                                                               /\ at[u] \in {"granted", "saving"}}}
    /\ UNCHANGED <<store, server, refresh, undone, breached, refused>>

-----------------------------------------------------------------------------
Progress(t) ==
    \/ ReadUnderLock(t) \/ LetGo(t) \/ ServerAnswers(t) \/ Load(t) \/ Save(t)
    \/ LockStep(t)

CNext ==
    \/ \E t \in Task :
          \/ AskForLock(t) \/ LockStep(t) \/ ReadUnderLock(t) \/ LetGo(t)
          \/ Unauthorized(t) \/ Authorized(t)
          \/ ServerAnswers(t) \/ NetworkFails(t) \/ Load(t) \/ Save(t)
    \/ \E q \in Provider : Expire(q)
    \/ \E p \in Proc : ProcessEnds(p)

\* Callbacks run and the server answers or its connection fails.
CSpec == CInit /\ [][CNext]_cvars /\ \A t \in Task : WF_cvars(Progress(t))

-----------------------------------------------------------------------------
(* Properties                                                               *)

\* Every variable keeps its type.
CredentialTypeOK ==
    /\ TypeOK
    /\ store \in [Provider -> Nat] /\ issued \in [Provider -> Nat]
    /\ valid \in [Provider -> BOOLEAN]
    /\ token \in [Task -> Nat] /\ reply \in [Task -> Nat]
    /\ at \in [Task -> Steps]
    /\ image \in [Task -> [Provider -> Nat]]
    /\ lost \subseteq Provider /\ undone \subseteq Provider /\ refused \subseteq Task /\ breached \in BOOLEAN

\* A send, which takes no lock, shares the entry with another task.
Contended(q) ==
    \E u \in Task \ Guarded, t \in Task : u # t /\ ProviderOf[u] = q /\ ProviderOf[t] = q

\* The server refuses a refresh token only after the pair that replaced it was
\* lost, or put back by the write of another entry, or the lock was breached:
\* of the tasks that take the lock, one refreshes per expiry and the others
\* take its result, whoever crashes in between (auth.ts "this collapses N
\* concurrent refreshes per true expiry event").
RefusedOnlyAfterLoss ==
    \A t \in refused :
        ProviderOf[t] \in lost \cup undone \/ breached \/ Contended(ProviderOf[t])

\* The pair the server honours is in the store, unless its holder is about
\* to write it or it was lost; what puts an old one back can only be the
\* write of another entry by another process.
StoreIsCurrent ==
    \A q \in Provider :
        \/ store[q] = issued[q] \/ q \in lost \cup undone
        \/ \E t \in Task : ProviderOf[t] = q /\ at[t] \in {"granted", "saving"}

\* A task that asked for a refresh is done with it, or its process is gone.
RefreshSettles ==
    \A t \in Guarded : pc[t] # "out" ~> pc[t] \in {"out", "dead"}
=============================================================================
