-------------------------------- MODULE Gate --------------------------------
(***************************************************************************)
(* Who may start an investigation and which namespaces it may read: the    *)
(* Authorizer and its TokenBucket (authz.py) and the policy both consult,  *)
(* re-read from a file others edit (config.py, AllowlistLoader).           *)
(*                                                                         *)
(* The file's mtime is its version.  Globs are abstracted to the sets of   *)
(* namespaces they match.  A token is Hour units, so that the refill of    *)
(* Capacity tokens an hour is Capacity units a tick.                       *)
(***************************************************************************)
EXTENDS Integers, Sequences, FiniteSets

CONSTANTS
  Users, Channels, Namespaces,
  Team,       \* slack_team_id
  AllowDMs,   \* slack_allow_dms
  Capacity,   \* rate_limit_per_hour
  Hour,       \* the refill period
  Policies,   \* what an allowlist file may say
  Requests,   \* what may be asked of the gate
  MaxEdits,   \* BOUND: edits of the file
  MaxTime     \* BOUND: the clock stops here

Policy == [operators : SUBSET Users, channels : SUBSET Channels,
           namespaces : SUBSET Namespaces, namespaces_denied : SUBSET Namespaces]
Nobody == [operators |-> {}, channels |-> {}, namespaces |-> {}, namespaces_denied |-> {}]

\* A Slack event, as _decide sees it, or a namespace a tool is about to read.
Event == [kind : {"event"}, bot : BOOLEAN, empty : BOOLEAN, team : {Team, "other"},
          user : Users, place : Channels \cup {"dm"}]
Read == [kind : {"namespace"}, namespace : Namespaces]

ASSUME GateAssumption ==
  /\ AllowDMs \in BOOLEAN
  /\ Capacity \in Nat \ {0} /\ Hour \in Nat \ {0}
  /\ Policies \subseteq Policy /\ Requests \subseteq Event \cup Read
  /\ MaxEdits \in Nat /\ MaxTime \in Nat

VARIABLES
  now,
  file,      \* [version, state, policy]: the allowlist on disk
  cached,    \* [version, policy]: AllowlistLoader._cached
  mtime,     \* AllowlistLoader._mtime, 0 before the first read
  unread,    \* versions whose read failed (history)
  pc,        \* idle | stat | read | decide
  request,   \* what is being decided
  asked,     \* the version of the file when it was asked (history)
  statted,   \* the mtime load() is working with
  verdict,   \* the last decision, "none" while there is none
  buckets,   \* TokenBucket._state: user -> [tokens, last]
  admitted   \* user -> when its investigations were let in (history)

policy_vars == <<cached, mtime, unread, statted>>
bucket_vars == <<buckets, admitted>>
vars == <<now, file, pc, request, asked, verdict, policy_vars, bucket_vars>>

Files(versions) == [version : versions, state : {"good"}, policy : Policies]
                   \cup [version : versions, state : {"malformed", "missing"}, policy : {Nobody}]

Init ==
  /\ now = 0
  /\ file \in Files({1})
  /\ cached = [version |-> 0, policy |-> Nobody]
  /\ mtime = 0 /\ unread = {} /\ statted = 0
  /\ pc = "idle" /\ request \in Requests /\ asked = 0 /\ verdict = "none"
  /\ buckets = [u \in {} |-> [tokens |-> 0, last |-> 0]]
  /\ admitted = [u \in Users |-> <<>>]

----------------------------------------------------------------------------
(* The world: time passes, the ConfigMap is edited under the process.      *)

Tick ==
  /\ pc = "idle" /\ now < MaxTime
  /\ now' = now + 1
  /\ UNCHANGED <<file, pc, request, asked, verdict, policy_vars, bucket_vars>>

Edit ==
  /\ file.version <= MaxEdits
  /\ file' \in Files({file.version + 1})
  /\ UNCHANGED <<now, pc, request, asked, verdict, policy_vars, bucket_vars>>

----------------------------------------------------------------------------
(* A request, up to the point where the policy is needed.                  *)

Screened(r) ==
  IF r.kind = "namespace" THEN "none"
  ELSE IF r.bot           THEN "bot_message"
  ELSE IF r.empty         THEN "empty_message"
  ELSE IF r.team # Team   THEN "wrong_team"
  ELSE "none"

Receive(r) ==
  /\ pc = "idle"
  /\ request' = r /\ asked' = file.version
  /\ verdict' = Screened(r)
  /\ pc' = IF verdict' = "none" THEN "stat" ELSE "idle"
  /\ UNCHANGED <<now, file, policy_vars, bucket_vars>>

----------------------------------------------------------------------------
(* AllowlistLoader.load: re-read when the mtime moved.                     *)

StatOnce ==  \* fault: the first policy is kept for good
  /\ pc = "stat"
  /\ pc' = IF file.state = "missing" \/ mtime # 0 THEN "decide" ELSE "read"
  /\ statted' = file.version
  /\ UNCHANGED <<now, file, cached, mtime, unread, request, asked, verdict, bucket_vars>>

Stat ==
  /\ pc = "stat"
  /\ pc' = IF file.state = "missing" \/ file.version = mtime THEN "decide" ELSE "read"
  /\ statted' = file.version
  /\ UNCHANGED <<now, file, cached, mtime, unread, request, asked, verdict, bucket_vars>>

ReadPolicy ==
  /\ pc = "read"
  /\ file.state = "good"
  /\ cached' = [version |-> file.version, policy |-> file.policy]
  /\ mtime' = statted
  /\ pc' = "decide"
  /\ UNCHANGED <<now, file, unread, statted, request, asked, verdict, bucket_vars>>

\* Malformed, gone, or an error of the read itself: the last policy is kept,
\* and the mtime recorded all the same.
ReadFailsClosed ==  \* fault: the policy is dropped
  /\ pc = "read"
  /\ cached' = [version |-> 0, policy |-> Nobody]
  /\ mtime' = statted /\ unread' = unread \cup {statted}
  /\ pc' = "decide"
  /\ UNCHANGED <<now, file, statted, request, asked, verdict, bucket_vars>>

ReadFails ==
  /\ pc = "read"
  /\ mtime' = statted /\ unread' = unread \cup {statted}
  /\ pc' = "decide"
  /\ UNCHANGED <<now, file, cached, statted, request, asked, verdict, bucket_vars>>

----------------------------------------------------------------------------
(* The decision.                                                           *)

AtMost(a, b) == IF a <= b THEN a ELSE b

TokensUncapped(u) ==  \* fault: refilled without a cap
  IF u \in DOMAIN buckets THEN buckets[u].tokens + (now - buckets[u].last) * Capacity
  ELSE Capacity * Hour

Tokens(u) ==
  IF u \in DOMAIN buckets
  THEN AtMost(Capacity * Hour, buckets[u].tokens + (now - buckets[u].last) * Capacity)
  ELSE Capacity * Hour

\* Fault: a refusal stores what was left before the refill, at the new time.
SetBucketUnfilled(u, tokens) ==
  LET left == IF tokens = Tokens(u) /\ u \in DOMAIN buckets THEN buckets[u].tokens ELSE tokens
  IN  buckets' = [v \in DOMAIN buckets \cup {u} |->
                    IF v = u THEN [tokens |-> left, last |-> now] ELSE buckets[v]]

SetBucket(u, tokens) ==
  buckets' = [v \in DOMAIN buckets \cup {u} |->
                IF v = u THEN [tokens |-> tokens, last |-> now] ELSE buckets[v]]

\* TokenBucket.consume, the last of the checks.
Consume(u) ==
  IF Tokens(u) >= Hour
  THEN /\ SetBucket(u, Tokens(u) - Hour)
       /\ admitted' = [admitted EXCEPT ![u] = Append(@, now)]
       /\ verdict' = "allow"
  ELSE /\ SetBucket(u, Tokens(u))
       /\ verdict' = "rate_limited"
       /\ UNCHANGED admitted

Refusal(r) ==
  IF r.user \notin cached.policy.operators THEN "unknown_user"
  ELSE IF r.place = "dm"
       THEN IF AllowDMs THEN "none" ELSE "dms_disabled"
  ELSE IF r.place \notin cached.policy.channels THEN "channel_not_allowed"
  ELSE "none"

Decide ==
  /\ pc = "decide" /\ request.kind = "event"
  /\ IF Refusal(request) = "none" THEN Consume(request.user)
     ELSE verdict' = Refusal(request) /\ UNCHANGED bucket_vars
  /\ pc' = "idle"
  /\ UNCHANGED <<now, file, request, asked, policy_vars>>

\* The denylist wins over the allowlist.
NamespaceDecision(namespace) ==
  IF namespace \in cached.policy.namespaces_denied THEN "denylisted"
  ELSE IF namespace \in cached.policy.namespaces THEN "allow"
  ELSE "not_allowlisted"

DecideNamespace ==
  /\ pc = "decide" /\ request.kind = "namespace"
  /\ verdict' = NamespaceDecision(request.namespace)
  /\ pc' = "idle"
  /\ UNCHANGED <<now, file, request, asked, policy_vars, bucket_vars>>

Next ==
  \/ Tick \/ Edit
  \/ \E r \in Requests : Receive(r)
  \/ Stat \/ ReadPolicy \/ ReadFails
  \/ Decide \/ DecideNamespace

Spec == Init /\ [][Next]_vars

----------------------------------------------------------------------------
(* Properties.                                                             *)

Verdicts == {"none", "allow", "bot_message", "empty_message", "wrong_team", "unknown_user",
             "dms_disabled", "channel_not_allowed", "rate_limited", "denylisted",
             "not_allowlisted"}

TypeOK ==
  /\ now \in Nat /\ file \in Files(Nat)
  /\ cached \in [version : Nat, policy : Policies \cup {Nobody}]
  /\ mtime \in Nat /\ unread \in SUBSET Nat /\ statted \in Nat /\ asked \in Nat
  /\ pc \in {"idle", "stat", "read", "decide"}
  /\ request \in Requests /\ verdict \in Verdicts
  /\ \E S \in SUBSET Users : buckets \in [S -> [tokens : 0..Capacity * Hour, last : Nat]]
  /\ admitted \in [Users -> Seq(Nat)]

\* Between any two of its admissions a user was let in no more often than a
\* full bucket and the refill of the time between them allow.
RateBound ==
  \A u \in Users : \A i, j \in DOMAIN admitted[u] : i <= j =>
    (j - i + 1) * Hour <= Capacity * Hour + Capacity * (admitted[u][j] - admitted[u][i])

\* Only a user who was let in Capacity times within the last hour is refused
\* for its rate, however its refused attempts were spaced.
RefusedOnlyWhenSpent ==
  [][pc = "decide" /\ verdict' = "rate_limited" =>
       Cardinality({i \in DOMAIN admitted[request.user] :
                      admitted[request.user][i] > now - Hour}) >= Capacity]_vars

\* A request is decided on the policy that was on disk when it was made, unless
\* the file changed since or could not be read: a revoked operator is out.
DecidesOnPolicyOnDisk ==
  pc = "decide" /\ file.state = "good" /\ file.version = asked =>
    cached.version = asked \/ asked \in unread
=============================================================================
