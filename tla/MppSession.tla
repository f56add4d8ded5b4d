---------------------------- MODULE MppSession ----------------------------
(***************************************************************************)
(* Batch payment sessions (agents/mpp-session-v2.ts): open, voucher and    *)
(* close over two stores, data/mpp-sessions.json and the mpp_sessions      *)
(* table.  Every operation loads both, edits one session and saves every   *)
(* row it loaded to both, with awaits in between.  An agent stands for an  *)
(* (agentId, chain) pair and a session for its calls used and its status.  *)
(***************************************************************************)
EXTENDS Naturals, FiniteSets, Sequences, SequencesExt

CONSTANTS
  Calls,    \* lanes a client may have a call in
  Agents,   \* (agentId, chain) pairs clients use
  SameId,   \* pairs of them with one agentId
  Probe,    \* the agent a close falls back to, "dexter-verifier-probe"
  Lookups,  \* how clients name a session: a subset of {"id", "agent", "both"}
  Torn,     \* the file while, or after, it cannot be parsed
  None,
  Lanes,    \* how many calls may overlap: one value is chosen initially
  KeepRows, \* rows saveSessions keeps, 200 in the code
  ListRows, \* rows listMppByAgent gives, 50 in the code
  MaxIds,   \* bound: sessions created in a behaviour
  MaxOps    \* bound: calls made in a behaviour

Ids == 1 .. MaxIds
Records == [id : Ids, agent : Agents \cup {Probe}, used : Nat, open : BOOLEAN]

ASSUME BoundsAssumption ==
  /\ Lanes \subseteq Nat \ {0} /\ KeepRows \in Nat \ {0} /\ ListRows \in Nat
  /\ MaxIds \in Nat /\ MaxOps \in Nat
  /\ Probe \notin Agents /\ Lookups \subseteq {"id", "agent", "both"}
  /\ None \notin Records \cup Ids \cup Agents /\ IsFiniteSet(Calls)

VARIABLES
  lanes,    \* how many calls overlap in this behaviour
  file,     \* mpp-sessions.json: a sequence of sessions, or Torn
  db,       \* mpp_sessions: id -> session, or None
  created,  \* sessions created so far; ids are given in this order
  op,       \* the operation of each call
  pc,       \* where each call is; "mixed" writes over another's bytes
  rows,     \* what each call has: the table's rows, as a set, or all rows
  reply,    \* what each call will answer once saved
  vouched,  \* per id, vouchers acknowledged
  settled,  \* per id, answers that carried a "closed" settlement
  named,    \* ids some call has named by sessionId
  cut,      \* ids whose edited row a save left out
  ops

vars == <<lanes, file, db, created, op, pc, rows, reply, vouched, settled, named, cut, ops>>

Session(i, a) == [id |-> i, agent |-> a, used |-> 0, open |-> TRUE]

-----------------------------------------------------------------------------
Init ==
  /\ lanes \in Lanes
  /\ file = <<>> /\ db = [i \in Ids |-> None] /\ created = 0
  /\ op = [c \in Calls |-> None] /\ pc = [c \in Calls |-> "idle"]
  /\ rows = [c \in Calls |-> <<>>] /\ reply = [c \in Calls |-> None]
  /\ vouched = [i \in Ids |-> 0] /\ settled = [i \in Ids |-> 0]
  /\ named = {} /\ cut = {} /\ ops = 0

Busy == {c \in Calls : pc[c] # "idle"}
Request(kind, id, agent) == [kind |-> kind, id |-> id, agent |-> agent]

(* A client knows an id once the table holds it. *)
Known == {i \in Ids : db[i] # None}
Requests ==
  {Request("open", None, a) : a \in Agents}
    \cup {Request(k, None, a) : k \in {"voucher", "close"}, a \in IF "agent" \in Lookups THEN Agents ELSE {}}
    \cup {Request(k, i, None) : k \in {"voucher", "close"}, i \in IF "id" \in Lookups THEN Known ELSE {}}
    \cup {Request(k, i, a) : k \in {"voucher", "close"}, i \in IF "both" \in Lookups THEN Known ELSE {}, a \in Agents}

(* loadSessions reads the table's latest rows of the caller's agentId, and *)
(* awaits the file; open passes no agent and reads no table.               *)
OfAgent(a) == {i \in Known : db[i].agent = a \/ <<db[i].agent, a>> \in SameId}
Table(a) == {db[i] : i \in {j \in OfAgent(a) : Cardinality({k \in OfAgent(a) : k > j}) < ListRows}}

Issue(c, o) ==
  /\ c \notin Busy /\ ops < MaxOps /\ ops' = ops + 1
  /\ Cardinality(Busy) < lanes
  /\ op' = [op EXCEPT ![c] = o] /\ pc' = [pc EXCEPT ![c] = "loading"]
  /\ rows' = [rows EXCEPT ![c] = IF o.kind = "open" THEN {} ELSE Table(o.agent)]
  /\ named' = IF o.id = None THEN named ELSE named \cup {o.id}
  /\ UNCHANGED <<lanes, file, db, created, reply, vouched, settled, cut>>

(* The file's rows, each in the table's version where there is one, then   *)
(* the table's other rows, newest first; the table's alone when the file   *)
(* is unreadable.  There is one such list.                                 *)
NewestFirst(S) == {l \in [1 .. Cardinality(S) -> S] : \A m, n \in DOMAIN l : m < n => l[m].id > l[n].id}
VersionIn(S, i, s) == IF \E u \in S : u.id = i THEN CHOOSE u \in S : u.id = i ELSE s
MergedAppends(t) == IF file = Torn THEN NewestFirst(t) ELSE {file \o l : l \in NewestFirst(t)}   \* mutant
Merged(t) ==
  IF file = Torn THEN NewestFirst(t)
  ELSE LET updated == [n \in DOMAIN file |-> VersionIn(t, file[n].id, file[n])]
       IN  {updated \o l : l \in NewestFirst({s \in t : \A n \in DOMAIN file : file[n].id # s.id})}

Loaded(c) == Merged(rows[c])

(* findOpenSession and findLatestSession: the first open row of the id, or *)
(* the last one of the agent.                                              *)
Wanted(c, s) == s.open /\ IF op[c].id # None THEN s.id = op[c].id ELSE s.agent = op[c].agent
OpenRow(c, rs) == {n \in DOMAIN rs : /\ Wanted(c, rs[n])
                                     /\ \A m \in DOMAIN rs : Wanted(c, rs[m]) => IF op[c].id # None THEN n <= m ELSE m <= n}
NoneOpen(c, rs) == \A n \in DOMAIN rs : ~Wanted(c, rs[n])
Owner(c) == IF op[c].agent = None THEN Probe ELSE op[c].agent
LatestClosed(c, rs) == \E n \in DOMAIN rs : /\ rs[n].agent = Owner(c) /\ ~rs[n].open
                                            /\ \A m \in DOMAIN rs : rs[m].agent = Owner(c) => m <= n

(* The edit of a voucher or a close, and what the call will answer. *)
EditedStaysOpen(c, s) == IF op[c].kind = "voucher" THEN [s EXCEPT !.used = @ + 1] ELSE s   \* mutant
EditedCountsClose(c, s) == [s EXCEPT !.used = @ + 1,                  \* mutant
                                     !.open = op[c].kind = "voucher"]
Edited(c, s) == IF op[c].kind = "voucher" THEN [s EXCEPT !.used = @ + 1]
                ELSE [s EXCEPT !.open = FALSE]
Saves(c, rs, kind, i) ==
  /\ pc' = [pc EXCEPT ![c] = "edited"] /\ rows' = [rows EXCEPT ![c] = rs]
  /\ reply' = [reply EXCEPT ![c] = [kind |-> kind, id |-> i]]
  /\ UNCHANGED <<lanes, file, db, op, named, vouched, settled, cut, ops>>

Reads(c, kinds) == pc[c] = "loading" /\ op[c].kind \in kinds
Direct(c) == op[c].id # None /\ db[op[c].id].open

Open(c) ==
  /\ Reads(c, {"open"}) /\ created < MaxIds /\ created' = created + 1
  /\ \E rs \in Loaded(c) : Saves(c, Append(rs, Session(created', op[c].agent)), "open", created')

(* findSession returns an object of its own: the edit never reaches rows.  *)
EditDetached(c) ==
  /\ Reads(c, {"voucher", "close"}) /\ Direct(c)
  /\ \E rs \in Loaded(c) : Saves(c, rs, op[c].kind, op[c].id)
  /\ UNCHANGED created

EditRow(c) ==
  /\ Reads(c, {"voucher", "close"}) /\ ~Direct(c)
  /\ \E rs \in Loaded(c) : \E n \in OpenRow(c, rs) :
       Saves(c, [rs EXCEPT ![n] = Edited(c, rs[n])], op[c].kind, rs[n].id)
  /\ UNCHANGED created

(* A close that finds nothing open opens a session of its own to close. *)
CloseOpens(c) ==
  /\ Reads(c, {"close"}) /\ ~Direct(c)
  /\ created < MaxIds /\ created' = created + 1
  /\ \E rs \in Loaded(c) :
       /\ NoneOpen(c, rs) /\ ~LatestClosed(c, rs)
       /\ Saves(c, Append(rs, Edited(c, Session(created', Owner(c)))), "close", created')

(* "already_closed", or SESSION_NOT_FOUND for a voucher: nothing is saved. *)
AnswerOnly(c) ==
  /\ Reads(c, {"voucher", "close"}) /\ ~Direct(c)
  /\ \E rs \in Loaded(c) : NoneOpen(c, rs) /\ (op[c].kind = "close" => LatestClosed(c, rs))
  /\ pc' = [pc EXCEPT ![c] = "idle"] /\ op' = [op EXCEPT ![c] = None]
  /\ rows' = [rows EXCEPT ![c] = <<>>]
  /\ UNCHANGED <<lanes, file, db, created, reply, named, vouched, settled, cut, ops>>

Truncate(c) ==
  /\ pc[c] = "edited" /\ pc' = [pc EXCEPT ![c] = "writing"]
  /\ file' = Torn
  /\ UNCHANGED <<lanes, db, created, op, rows, reply, named, vouched, settled, cut, ops>>

(* saveSessions: the last rows go to the file, then each to the table, in  *)
(* the callback that also answers.                                         *)
Kept(rs) == SubSeq(rs, IF Len(rs) > KeepRows THEN Len(rs) - KeepRows + 1 ELSE 1, Len(rs))

IdsIn(rs) == {rs[n].id : n \in DOMAIN rs}
CountedIf(yes, f, i) == IF yes THEN [f EXCEPT ![i] = @ + 1] ELSE f

Write(c) ==
  LET kept == Kept(rows[c])
      answered == reply[c].id
  IN  /\ pc[c] \in {"writing", "mixed"}
      /\ file' = kept \/ (pc[c] = "mixed" /\ file' = Torn)
      /\ db' = [i \in Ids |-> VersionIn(ToSet(kept), i, db[i])]
      /\ cut' = cut \cup ({answered} \cap (IdsIn(rows[c]) \ IdsIn(kept)))
      /\ pc' = [d \in Calls |-> IF d = c THEN "idle"
                               ELSE IF pc[d] = "writing" THEN "mixed" ELSE pc[d]]
      /\ vouched' = CountedIf(reply[c].kind = "voucher", vouched, answered)
      /\ settled' = CountedIf(reply[c].kind = "close", settled, answered)
      /\ op' = [op EXCEPT ![c] = None] /\ rows' = [rows EXCEPT ![c] = <<>>]
      /\ reply' = [reply EXCEPT ![c] = None]
      /\ UNCHANGED <<lanes, created, named, ops>>

Next ==
  \E c \in Calls :
    \/ \E o \in Requests : Issue(c, o)
    \/ Open(c) \/ EditDetached(c) \/ EditRow(c) \/ CloseOpens(c) \/ AnswerOnly(c)
    \/ Truncate(c) \/ Write(c)

Spec == Init /\ [][Next]_vars

-----------------------------------------------------------------------------
IsSession(s) == s \in Records /\ s.id <= created
IsRows(rs) ==
  /\ rs \in Seq(Records) /\ \A n \in DOMAIN rs : rs[n].id <= created
  /\ \A m, n \in DOMAIN rs : rs[m].id = rs[n].id => m = n
IsTable(t) == (\A s \in t : IsSession(s)) /\ \A s, u \in t : s.id = u.id => s = u

(* Every list of rows, stored or in a call's hands, names a session once.  *)
TypeOK ==
  /\ lanes \in Lanes /\ created \in 0 .. MaxIds /\ ops \in 0 .. MaxOps
  /\ file # Torn => IsRows(file)
  /\ DOMAIN db = Ids
  /\ \A i \in Known : IsSession(db[i]) /\ db[i].id = i
  /\ pc \in [Calls -> {"idle", "loading", "edited", "writing", "mixed"}]
  /\ DOMAIN rows = Calls
  /\ \A c \in Calls :
       /\ pc[c] = "loading" => IsTable(rows[c])
       /\ pc[c] \in {"edited", "writing", "mixed"} => IsRows(rows[c])
  /\ named \subseteq Known /\ cut \subseteq Ids
  /\ vouched \in [Ids -> Nat] /\ settled \in [Ids -> Nat]

(* No store ever counts a call that no acknowledged voucher stands for,    *)
(* whatever overlaps: updates may be lost, never invented.                 *)
NeverOvercounted ==
  /\ \A i \in Ids : db[i] # None => db[i].used <= vouched[i]
  /\ file # Torn => \A n \in DOMAIN file : file[n].used <= vouched[file[n].id]

(* One call at a time, a session only ever found through its agent is kept *)
(* exactly: every voucher counted, closed once and for all, settled once;  *)
(* except that an edit is lost when its row is no longer among the last    *)
(* that a save keeps, which takes more sessions than it keeps.             *)
SerialByAgentIsExact ==
  lanes = 1 =>
    /\ cut # {} => created > KeepRows
    /\ Busy = {} =>
         \A i \in 1 .. created :
           /\ db[i] # None
           /\ i \notin named \cup cut =>
                db[i].used = vouched[i] /\ settled[i] = IF db[i].open THEN 0 ELSE 1

(* A session's total is settled once: "Settle aggregate USDC once on-chain *)
(* via facilitator" (mpp-session-v2.ts:337).                               *)
SettledOnce == \A i \in Ids : settled[i] <= 1
=============================================================================
