------------------------------ MODULE Authority ------------------------------
(***************************************************************************)
(* opc_bridge/control.py, routes.py and policy.py: commands of the         *)
(* operator.  A handler thread of the HTTP API serves a call that names a  *)
(* message of the control channel; OperatorAuth.verify lets it do what     *)
(* that message says, once.  The commands write mandates and policy rows,  *)
(* which policy.effective resolves, or stop one run.                       *)
(*                                                                         *)
(* Policy is modelled on one key, "followups.allowed", which both a        *)
(* mandate and an override can set and whose default is FALSE.             *)
(***************************************************************************)
EXTENDS Naturals, FiniteSets, Sequences

CONSTANTS
    Handler,     \* threads of the API server
    Order,       \* messages of the control channel
    Says,        \* [Order -> the commands whose verb and tokens its text has]
    SignedBy,    \* [Order -> the key that signed it]
    PostedAt,    \* [Order -> Nat]
    Operator,    \* cfg.operator_pubkey
    Grants,      \* mandates that can be granted: [verb, scope, value]
    Overrides,   \* overrides that can be set: [verb, scope, value]
    Runs,        \* runs that can be stopped
    NoCall,      \* what a handler that serves no call holds
    MaxAge,      \* command_max_age_seconds
    MaxRows,     \* bound on policy rows
    MaxTime,     \* bound on the clock
    MaxRestarts  \* bound on restarts of the bridge

ScopeRank == [company |-> 1, track |-> 2, project |-> 3]

Settings(verb) == [verb : {verb}, scope : DOMAIN ScopeRank, value : BOOLEAN]

ASSUME AuthorityAssumption ==
    Grants \subseteq Settings("grant") /\ Overrides \subseteq Settings("override")

VARIABLES
    time,
    used,       \* table auth_uses
    rows,       \* tables mandates and policies, oldest first
    status,     \* Paperclip's status of each run
    cancelling, \* runs Paperclip was asked to cancel
    stopped,    \* history: runs force_stop reported as stopped
    executed,   \* history: commands carried out under each message
    step,       \* where each handler is
    msg,        \* the message its call names
    cmd,        \* what its route is about to do
    restarts

authorityVars == <<time, used, rows, status, cancelling, stopped, executed, step, msg,
                   cmd, restarts>>

Stops == [verb : {"stop"}, run : Runs]
Revokes == [verb : {"revoke"}, row : 1..MaxRows]
Commands == Grants \cup Overrides \cup Revokes \cup Stops

AuthorityInit ==
    /\ time = 0
    /\ used = {}
    /\ rows = <<>>
    /\ status = [r \in Runs |-> "running"]
    /\ cancelling = {}
    /\ stopped = {}
    /\ executed = [m \in Order |-> 0]
    /\ step = [h \in Handler |-> "idle"]
    /\ msg = [h \in Handler |-> NoCall]
    /\ cmd = [h \in Handler |-> NoCall]
    /\ restarts = 0

----------------------------------------------------------------------------
(* policy.effective: every live row and the default compete; the priority, *)
(* then the narrower scope, then the newer row win, and rows that still    *)
(* tie are folded with _restrictive.                                       *)

Priority(row) == IF row.verb = "override" THEN 20 ELSE IF row.verb = "grant" THEN 30 ELSE 50

Default == [verb |-> "default", scope |-> "company", value |-> FALSE, at |-> 0, live |-> TRUE]

Candidates(rs) == {rs[i] : i \in {j \in DOMAIN rs : rs[j].live}} \cup {Default}

\* Row a wins against row b, or ties with it.
AtLeast(a, b) ==
    \/ Priority(a) < Priority(b)
    \/ /\ Priority(a) = Priority(b)
       /\ \/ ScopeRank[a.scope] > ScopeRank[b.scope]
          \/ ScopeRank[a.scope] = ScopeRank[b.scope] /\ a.at >= b.at

Best(cs) == {a \in cs : \A b \in cs : AtLeast(a, b)}

\* One of the rows that tie, and no fold.
Effective_BUG(rs) == \E row \in Best(Candidates(rs)) : row.value

Effective(rs) == \A row \in Best(Candidates(rs)) : row.value

----------------------------------------------------------------------------
(* OperatorAuth.verify: the message is fetched and judged, then taken out  *)
(* of use by an INSERT that a second handler's INSERT cannot repeat.       *)

Authorises(m, c) ==
    /\ PostedAt[m] <= time
    /\ SignedBy[m] = Operator
    /\ time <= PostedAt[m] + MaxAge
    /\ c \in Says[m]
    /\ m \notin used

Ask(h, m, c) ==
    /\ step[h] = "idle"
    /\ Authorises(m, c)
    /\ step' = [step EXCEPT ![h] = "verified"]
    /\ msg' = [msg EXCEPT ![h] = m]
    /\ cmd' = [cmd EXCEPT ![h] = c]
    /\ UNCHANGED <<time, used, rows, status, cancelling, stopped, executed, restarts>>

\* The handler goes on, or its call ends.
Proceed(h, where) ==
    /\ step' = [step EXCEPT ![h] = where]
    /\ msg' = [msg EXCEPT ![h] = IF where = "idle" THEN NoCall ELSE @]
    /\ cmd' = [cmd EXCEPT ![h] = IF where = "idle" THEN NoCall ELSE @]

\* INSERT OR REPLACE instead of INSERT.
UseAuth_BUG(h) ==
    /\ step[h] = "verified"
    /\ used' = used \cup {msg[h]}
    /\ Proceed(h, "act")
    /\ UNCHANGED <<time, rows, status, cancelling, stopped, executed, restarts>>

\* The loser's INSERT raises on the primary key: its call ends with an error.
UseAuth(h) ==
    /\ step[h] = "verified"
    /\ used' = used \cup {msg[h]}
    /\ Proceed(h, IF msg[h] \in used THEN "idle" ELSE "act")
    /\ UNCHANGED <<time, rows, status, cancelling, stopped, executed, restarts>>

----------------------------------------------------------------------------
(* The commands.                                                           *)

Execute(h, where) ==
    /\ Proceed(h, where)
    /\ executed' = [executed EXCEPT ![msg[h]] = @ + 1]
    /\ UNCHANGED <<time, used, restarts>>

\* grant_mandate and set_override insert a row; the resolver reads it from then on.
WriteRow(h) ==
    /\ step[h] = "act" /\ cmd[h].verb \in {"grant", "override"}
    /\ Len(rows) < MaxRows
    /\ Execute(h, "idle")
    /\ rows' = Append(rows, [verb |-> cmd[h].verb, scope |-> cmd[h].scope,
                             value |-> cmd[h].value, at |-> time, live |-> TRUE])
    /\ UNCHANGED <<status, cancelling, stopped>>

\* revoke_mandate and override_revoke; an unknown or revoked id changes nothing.
RevokeRow(h) ==
    /\ step[h] = "act" /\ cmd[h].verb = "revoke"
    /\ Execute(h, "idle")
    /\ rows' = IF cmd[h].row \in DOMAIN rows
               THEN [rows EXCEPT ![cmd[h].row].live = FALSE] ELSE rows
    /\ UNCHANGED <<status, cancelling, stopped>>

\* force_stop reads the run first: one that has ended is a refusal.
StopCheck(h) ==
    /\ step[h] = "act" /\ cmd[h].verb = "stop"
    /\ Execute(h, IF status[cmd[h].run] = "running" THEN "cancel" ELSE "idle")
    /\ UNCHANGED <<rows, status, cancelling, stopped>>

StopCancel(h) ==
    /\ step[h] = "cancel"
    /\ IF status[cmd[h].run] = "running"
       THEN /\ cancelling' = cancelling \cup {cmd[h].run}
            /\ Proceed(h, "settle")
       ELSE /\ Proceed(h, "settle") \/ Proceed(h, "idle")
            /\ UNCHANGED cancelling
    /\ UNCHANGED <<time, used, rows, status, stopped, executed, restarts>>

\* It reports success for a run that is cancelled or interrupted by now,
\* whoever did it, and a timeout for one that ended otherwise or has not ended
\* after the last try.
Stopped(r) == status[r] \in {"cancelled", "interrupted"}

StopSettle(h) ==
    /\ step[h] = "settle"
    /\ stopped' = IF Stopped(cmd[h].run) THEN stopped \cup {cmd[h].run} ELSE stopped
    /\ Proceed(h, "idle")
    /\ UNCHANGED <<time, used, rows, status, cancelling, executed, restarts>>

----------------------------------------------------------------------------

\* Paperclip: a run ends by itself or is interrupted, or it is cancelled, as
\* the bridge asked or as a person or Paperclip itself did.
RunEnds(r) ==
    /\ status[r] = "running"
    /\ \E end \in {"succeeded", "cancelled", "interrupted"} :
          status' = [status EXCEPT ![r] = end]
    /\ UNCHANGED <<time, used, rows, cancelling, stopped, executed, step, msg, cmd,
                   restarts>>

TimePasses ==
    /\ time < MaxTime
    /\ time' = time + 1
    /\ UNCHANGED <<used, rows, status, cancelling, stopped, executed, step, msg, cmd,
                   restarts>>

\* A crash of the bridge ends every call; the tables stay.
Restart ==
    /\ restarts < MaxRestarts
    /\ restarts' = restarts + 1
    /\ step' = [h \in Handler |-> "idle"]
    /\ msg' = [h \in Handler |-> NoCall]
    /\ cmd' = [h \in Handler |-> NoCall]
    /\ UNCHANGED <<time, used, rows, status, cancelling, stopped, executed>>

AuthorityNext ==
    \/ \E h \in Handler :
          \/ \E m \in Order, c \in Commands : Ask(h, m, c)
          \/ UseAuth(h) \/ WriteRow(h) \/ RevokeRow(h)
          \/ StopCheck(h) \/ StopCancel(h) \/ StopSettle(h)
    \/ \E r \in Runs : RunEnds(r)
    \/ TimePasses \/ Restart

AuthoritySpec == AuthorityInit /\ [][AuthorityNext]_authorityVars

----------------------------------------------------------------------------

\* A message of the operator is carried out at most once, whatever calls,
\* threads and restarts there are, and never one of anybody else's (verify:
\* auth_used and use_auth are two transactions).  Paperclip is asked to cancel,
\* and force_stop reports as stopped, only runs for which such a message was
\* spent; a run reported as stopped ended cancelled or interrupted, and did not
\* finish between the check and the cancel.  Who ended it the code does not
\* establish.
OneCommand ==
    /\ \A m \in Order :
        /\ executed[m] + Cardinality({h \in Handler : step[h] = "act" /\ msg[h] = m}) <= 1
        /\ executed[m] > 0 => m \in used /\ SignedBy[m] = Operator
    /\ \A r \in stopped : status[r] \in {"cancelled", "interrupted"}
    /\ \A r \in stopped \cup cancelling :
        \E m \in Order : executed[m] = 1 /\ [verb |-> "stop", run |-> r] \in Says[m]

\* Follow-ups are allowed only if some live row says so and no live override
\* of a scope at least as narrow, made no earlier, says otherwise
\* (policy.effective over rows of every source).
NoWidening ==
    Effective(rows) =>
        \E i \in DOMAIN rows :
            /\ rows[i].live /\ rows[i].value
            /\ ~\E j \in DOMAIN rows :
                  /\ rows[j].live /\ rows[j].verb = "override" /\ ~rows[j].value
                  /\ ScopeRank[rows[j].scope] >= ScopeRank[rows[i].scope]
                  /\ rows[j].at >= rows[i].at
=============================================================================
