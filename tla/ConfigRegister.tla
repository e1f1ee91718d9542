--------------------------- MODULE ConfigRegister ---------------------------
(* What the configuration of the hash monitor promises to those who edit it: one value, which    *)
(* changes only by one edit at a time of the value that was there before, and which is lost only *)
(* when the program stops between the two halves of a save. ConfigStore implements it.           *)
EXTENDS Naturals, Sequences

CONSTANT Default          \* config.default.json, which a first start copies

VARIABLES value,          \* the configuration in force
          exposed         \* a save was begun that has not been completed
registerVars == <<value, exposed>>

IdsOf(list) == {list[i].id : i \in DOMAIN list}
Distinct(list) == \A i, j \in DOMAIN list : list[i].id = list[j].id => i = j

\* Discord and Hermes are on only with the webhook and the token they need, and an identifier
\* names one miner, and one pool.
Sound(c) ==
  /\ c.discord.enabled => c.discord.hook
  /\ c.hermes.enabled => c.hermes.token # 0
  /\ Distinct(c.miners)
  /\ Distinct(c.pools)

Same(c, d, sections) == \A s \in sections : c[s] = d[s]

\* One item is added, changed under its identifier or removed, or the items are put in another order.
ListEdit(old, new) ==
  \/ \E i \in IdsOf(old) : IdsOf(new) = IdsOf(old) \ {i} /\ Len(new) = Len(old) - 1
  \/ /\ Len(new) = Len(old) + 1
     /\ \A i \in DOMAIN old : new[i] = old[i]
  \/ /\ DOMAIN new = DOMAIN old
     /\ \E k \in DOMAIN old : \A i \in DOMAIN old : new[i].id = old[i].id /\ (i # k => new[i] = old[i])
  \/ {new[i] : i \in DOMAIN new} = {old[i] : i \in DOMAIN old} /\ Len(new) = Len(old)

\* The settings form: never the token, the miners or the pools; a webhook is replaced or cleared.
SettingsEdit(old, new) ==
  /\ Same(old, new, {"miners", "pools"})
  /\ new.hermes.token = old.hermes.token
  /\ new.app.enabled => new.app.acked
  /\ old.app.acked => new.app.acked

\* A token is made or deleted, and nothing else; without a token Hermes is off.
TokenEdit(old, new) ==
  /\ Same(old, new, {"app", "discord", "miners", "pools"})
  /\ \/ new.hermes.token = 0
     \/ new.hermes.token # old.hermes.token /\ new.hermes.enabled = old.hermes.enabled

\* A backup replaces the miners and the pools, and leaves the credentials of this installation.
RestoreEdit(old, new) ==
  /\ new.hermes.token = old.hermes.token
  /\ new.discord.hook = old.discord.hook

Edited(old, new) ==
  /\ Sound(new)
  /\ \/ Same(old, new, {"app", "discord", "hermes", "pools"}) /\ ListEdit(old.miners, new.miners)
     \/ Same(old, new, {"app", "discord", "hermes", "miners"}) /\ ListEdit(old.pools, new.pools)
     \/ SettingsEdit(old, new)
     \/ TokenEdit(old, new)
     \/ RestoreEdit(old, new)

Begin == ~exposed /\ exposed' = TRUE /\ UNCHANGED value
Complete == exposed /\ exposed' = FALSE /\ Edited(value, value')
Lose == exposed /\ exposed' = FALSE /\ value' = Default

RegisterInit == value = Default /\ exposed = FALSE
RegisterNext == Begin \/ Complete \/ Lose
RegisterSpec == RegisterInit /\ [][RegisterNext]_registerVars
=============================================================================
