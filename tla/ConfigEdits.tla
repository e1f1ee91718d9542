----------------------------- MODULE ConfigEdits -----------------------------
(* The edits of the hash monitor's configuration (main.py, config_transfer.py, validation.py) as *)
(* operators on a configuration value: each gives the values a request may lead to, none when    *)
(* the request is refused. Names, thresholds, odds and the order shown are left out; an item is  *)
(* its identifier and what an edit finds it by.                                                  *)
EXTENDS Naturals, Sequences, FiniteSetsExt

CONSTANTS MinerIds, PoolIds,  \* what make_id hands out, random and never twice
          NoId,               \* a backup's entry without a well-formed identifier
          Places,             \* the (ip, type) a miner is reached at
          Monitors,           \* the pools that can be asked for: [mode, api_url, log_path]
          MaxItems,           \* bound on the miners, and on the pools, of a configuration
          MaxToken            \* bound on the Hermes tokens ever made

ASSUME EditsAssumption ==
  MaxItems \in Nat /\ MaxToken \in Nat /\ NoId \notin MinerIds \cup PoolIds

Lists(ids, contents) == UNION {[1..n -> [id : ids, at : contents]] : n \in 0..MaxItems}

Configs ==
  [app : [enabled : BOOLEAN, acked : BOOLEAN], discord : [enabled : BOOLEAN, hook : BOOLEAN],
   hermes : [enabled : BOOLEAN, token : 0..MaxToken],
   miners : Lists(MinerIds, Places), pools : Lists(PoolIds, Monitors)]

Default ==
  [app |-> [enabled |-> FALSE, acked |-> FALSE], discord |-> [enabled |-> FALSE, hook |-> FALSE],
   hermes |-> [enabled |-> FALSE, token |-> 0], miners |-> <<>>, pools |-> <<>>]

IdsIn(list) == {list[i].id : i \in DOMAIN list}

\* Replaces the item at position i under the identifier it has.
Replaced(list, i, content) == [list EXCEPT ![i].at = content]

\* Removes the item at position i.
Dropped(list, i) == [j \in 1 .. Len(list) - 1 |-> IF j < i THEN list[j] ELSE list[j + 1]]

-----------------------------------------------------------------------------
\* Miners.

\* A miner that is posted takes the place of the first one with the same address and API.
SameMiner(item, content) == item.at = content

\* A pool of the same kind is the same pool if the URL, or the path, is the same: and the one of
\* the two that its kind does not use is empty in both. (Names, a third way to match, are left out.)
SamePool(item, content) ==
  /\ item.at.mode = content.mode
  /\ item.at.api_url = content.api_url \/ item.at.log_path = content.log_path

Posted(list, same, content, fresh) ==
  IF same # {} THEN {Replaced(list, Min(same), content)}
  ELSE {Append(list, [id |-> x, at |-> content]) : x \in IF Len(list) < MaxItems THEN fresh ELSE {}}

PostMiner(c, content, fresh) ==
  {[c EXCEPT !.miners = l] :
    l \in Posted(c.miners, {i \in DOMAIN c.miners : SameMiner(c.miners[i], content)}, content, fresh)}

PutMiner(c, i, content) == [c EXCEPT !.miners = Replaced(@, i, content)]
DeleteMiner(c, i) == [c EXCEPT !.miners = Dropped(@, i)]

\* Every identifier must be given exactly once.
Orders(n) ==
  {p \in [1..n -> 1..n] :
    /\ \A i, j \in 1..n : p[i] = p[j] => i = j
    /\ \A j \in 1..n : \E i \in 1..n : p[i] = j}

Reorder(c) ==
  {[c EXCEPT !.miners = [i \in DOMAIN c.miners |-> c.miners[p[i]]]] : p \in Orders(Len(c.miners))}

-----------------------------------------------------------------------------
\* Pools.
PostPool(c, content, fresh) ==
  {[c EXCEPT !.pools = l] :
    l \in Posted(c.pools, {i \in DOMAIN c.pools : SamePool(c.pools[i], content)}, content, fresh)}

PutPool(c, i, content) == [c EXCEPT !.pools = Replaced(@, i, content)]
DeletePool(c, i) == [c EXCEPT !.pools = Dropped(@, i)]

-----------------------------------------------------------------------------
\* Settings: the form s is refused when controls are asked for that nobody acknowledged, when Hermes
\* is asked for without a token, or Discord without a webhook.
Forms == [control : BOOLEAN, ack : BOOLEAN, discord : BOOLEAN, webhook : {"keep", "new", "clear"},
          hermes : BOOLEAN]

HookAfter(c, s) == s.webhook = "new" \/ (s.webhook = "keep" /\ c.discord.hook)

Settings(c, s) ==
  IF \/ s.control /\ ~(c.app.acked \/ s.ack)
     \/ s.hermes /\ c.hermes.token = 0
     \/ s.discord /\ ~HookAfter(c, s)
  THEN {}
  ELSE {[c EXCEPT !.app = [enabled |-> s.control, acked |-> c.app.acked \/ s.ack],
                  !.discord = [enabled |-> s.discord, hook |-> HookAfter(c, s)],
                  !.hermes.enabled = s.hermes]}

MakeToken(c, t) == [c EXCEPT !.hermes.token = t]
DropToken(c) == [c EXCEPT !.hermes = [enabled |-> FALSE, token |-> 0]]

-----------------------------------------------------------------------------
\* Backups. Neither the webhook nor the token is in one, and what needs them is off; one that
\* was made before the safety notice existed does not say whether it was acknowledged (asked).
Backups ==
  [app : [enabled : BOOLEAN, acked : BOOLEAN], asked : BOOLEAN, discord : BOOLEAN, hermes : BOOLEAN,
   miners : Lists(MinerIds \cup {NoId}, Places), pools : Lists(PoolIds \cup {NoId}, Monitors)]

SafeBackup(c) ==
  [app |-> c.app, asked |-> TRUE, discord |-> FALSE, hermes |-> FALSE,
   miners |-> c.miners, pools |-> c.pools]

\* Plausible slip: a repeated identifier is not noticed.
KeepsAny(list, i, ids) == list[i].id \in ids

\* An identifier of the backup is kept if it is well formed and was not used by an earlier entry.
Keeps(list, i, ids) == list[i].id \in ids /\ \A j \in 1 .. i - 1 : list[j].id # list[i].id

CleanItems(list, ids, fresh) ==
  {[i \in DOMAIN list |-> [id |-> f[i], at |-> list[i].at]] :
    f \in {g \in [DOMAIN list -> ids] : \A i \in DOMAIN list :
             IF Keeps(list, i, ids) THEN g[i] = list[i].id
             ELSE g[i] \in fresh /\ \A j \in DOMAIN list : g[i] = g[j] => i = j}}

CleanApp(b, current) ==
  [enabled |-> b.app.enabled, acked |-> IF b.asked THEN b.app.acked ELSE current.acked]

Restore(c, b, freshMiners, freshPools) ==
  {[app |-> CleanApp(b, c.app),
    discord |-> [c.discord EXCEPT !.enabled = b.discord /\ c.discord.hook],
    hermes |-> [c.hermes EXCEPT !.enabled = b.hermes /\ c.hermes.token # 0],
    miners |-> m, pools |-> p] :
    m \in CleanItems(b.miners, MinerIds, freshMiners), p \in CleanItems(b.pools, PoolIds, freshPools)}
=============================================================================
