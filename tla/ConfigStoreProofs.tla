-------------------------- MODULE ConfigStoreProofs --------------------------
(* What holds of ConfigStore for any miners, pools, backups and tokens: that it implements       *)
(* ConfigRegister, that what it holds is sound at every moment, and that no MCP request is let   *)
(* in by the halves of two configurations.                                                       *)
EXTENDS ConfigStore, SequenceTheorems, TLAPS

-----------------------------------------------------------------------------
(* Lists of items *)

\* A function on 1..n is a sequence of length n.
LEMMA IsSequence ==
  ASSUME NEW S, NEW n \in Nat, NEW l \in [1..n -> S]
  PROVE  l \in Seq(S) /\ Len(l) = n
<1>1. l \in Seq(S)
  BY SeqDef
<1>2. DOMAIN l = 1..n /\ DOMAIN l = 1..Len(l) /\ Len(l) \in Nat
  BY <1>1, LenProperties
<1> QED
  BY <1>1, <1>2

\* A list is a sequence, and what is a function on its positions is one too.
LEMMA ListIs ==
  ASSUME NEW I, NEW C, NEW l \in Lists(I, C)
  PROVE  /\ l \in Seq([id : I, at : C])
         /\ Len(l) \in 0..MaxItems /\ Len(l) \in Nat /\ DOMAIN l = 1..Len(l)
         /\ \A i \in 1..Len(l) : l[i] \in [id : I, at : C]
<1>1. PICK n \in 0..MaxItems : l \in [1..n -> [id : I, at : C]]
  BY DEF Lists
<1>2. n \in Nat
  BY <1>1, EditsAssumption
<1>3. l \in Seq([id : I, at : C]) /\ Len(l) = n
  BY <1>1, <1>2, IsSequence
<1> QED
  BY <1>1, <1>2, <1>3

\* What is a function on the positions of a list, within the bound, is a list.
LEMMA IsList ==
  ASSUME NEW I, NEW C, NEW n \in 0..MaxItems, NEW l \in [1..n -> [id : I, at : C]]
  PROVE  l \in Lists(I, C) /\ Len(l) = n /\ DOMAIN l = 1..n
<1>1. l \in Lists(I, C)
  BY DEF Lists
<1>2. n \in Nat
  BY EditsAssumption
<1> QED
  BY <1>1, <1>2, IsSequence

\* What becomes of a list that is sound: it is a list that is sound, and the change is one that
\* ConfigRegister allows.
Fine(l, m, I, C) == m \in Lists(I, C) /\ Register!Distinct(m) /\ Register!ListEdit(l, m)

\* Changing one item under its identifier.
LEMMA ReplacedFine ==
  ASSUME NEW I, NEW C, NEW l \in Lists(I, C), Register!Distinct(l), NEW i \in DOMAIN l, NEW c \in C
  PROVE  Fine(l, Replaced(l, i, c), I, C)
<1> DEFINE m == Replaced(l, i, c)
<1>1. /\ Len(l) \in 0..MaxItems /\ DOMAIN l = 1..Len(l)
      /\ \A j \in 1..Len(l) : l[j] \in [id : I, at : C]
      /\ l \in [1..Len(l) -> [id : I, at : C]]
  BY ListIs, LenProperties
<1>2. m \in [1..Len(l) -> [id : I, at : C]]
  BY <1>1 DEF Replaced
<1>3. m \in Lists(I, C) /\ Len(m) = Len(l) /\ DOMAIN m = DOMAIN l
  BY <1>1, <1>2, IsList
<1>4. \A j \in DOMAIN l : m[j].id = l[j].id /\ (j # i => m[j] = l[j])
  BY <1>1 DEF Replaced
<1> HIDE DEF m
<1>5. Register!Distinct(m)
  BY <1>3, <1>4 DEF Register!Distinct
<1>6. Register!ListEdit(l, m)
  BY <1>3, <1>4 DEF Register!ListEdit
<1> QED
  BY <1>3, <1>5, <1>6 DEF Fine, m

\* Removing one item: the others keep their identifiers and move up.
LEMMA DroppedFine ==
  ASSUME NEW I, NEW C, NEW l \in Lists(I, C), Register!Distinct(l), NEW i \in DOMAIN l
  PROVE  Fine(l, Dropped(l, i), I, C)
<1> DEFINE m == Dropped(l, i)
           n == Len(l)
<1>1. /\ n \in 0..MaxItems /\ n \in Nat /\ DOMAIN l = 1..n
      /\ \A j \in 1..n : l[j] \in [id : I, at : C]
  BY ListIs
<1>2. n - 1 \in 0..MaxItems
  BY <1>1, EditsAssumption
<1>3. m \in [1 .. n - 1 -> [id : I, at : C]]
  BY <1>1 DEF Dropped
<1>4. m \in Lists(I, C) /\ Len(m) = n - 1 /\ DOMAIN m = 1 .. n - 1
  BY <1>2, <1>3, IsList
<1>5. \A j \in 1 .. n - 1 : m[j] = IF j < i THEN l[j] ELSE l[j + 1]
  BY DEF Dropped
<1> HIDE DEF m, n
<1>6. Register!Distinct(m)
  <2> SUFFICES ASSUME NEW a \in 1 .. n - 1, NEW b \in 1 .. n - 1, m[a].id = m[b].id PROVE a = b
    BY <1>4 DEF Register!Distinct
  <2> DEFINE from(j) == IF j < i THEN j ELSE j + 1
  <2>1. from(a) \in 1..n /\ from(b) \in 1..n /\ m[a] = l[from(a)] /\ m[b] = l[from(b)]
    BY <1>1, <1>5
  <2>2. from(a) = from(b)
    BY <2>1, <1>1 DEF Register!Distinct
  <2> QED
    BY <2>2, <1>1
<1>7. Register!IdsOf(m) = Register!IdsOf(l) \ {l[i].id}
  <2>1. ASSUME NEW x \in Register!IdsOf(m) PROVE x \in Register!IdsOf(l) \ {l[i].id}
    <3>1. PICK j \in 1 .. n - 1 : x = m[j].id
      BY <1>4 DEF Register!IdsOf
    <3> QED
      BY <3>1, <1>1, <1>5 DEF Register!IdsOf, Register!Distinct
  <2>2. ASSUME NEW x \in Register!IdsOf(l), x # l[i].id PROVE x \in Register!IdsOf(m)
    <3>1. PICK k \in 1..n : x = l[k].id
      BY <1>1 DEF Register!IdsOf
    <3>2. CASE k < i
      <4>1. k \in 1 .. n - 1 /\ m[k] = l[k]
        BY <3>2, <1>1, <1>5
      <4> QED
        BY <4>1, <3>1, <1>4 DEF Register!IdsOf
    <3>3. CASE ~(k < i)
      <4>1. k > i
        BY <3>1, <3>3, <2>2, <1>1
      <4>2. k - 1 \in 1 .. n - 1 /\ m[k - 1] = l[k]
        BY <4>1, <1>1, <1>5
      <4> QED
        BY <4>2, <3>1, <1>4 DEF Register!IdsOf
    <3> QED
      BY <3>2, <3>3
  <2> QED
    BY <2>1, <2>2
<1>8. Register!ListEdit(l, m)
  <2>1. l[i].id \in Register!IdsOf(l)
    BY <1>1 DEF Register!IdsOf
  <2> QED
    BY <2>1, <1>4, <1>7 DEF Register!ListEdit, n
<1> QED
  BY <1>4, <1>6, <1>8 DEF Fine, m

\* Posting an item: it takes the place of the one it is the same as, or comes last with an
\* identifier no item has.
LEMMA PostedFine ==
  ASSUME NEW I, NEW C, NEW l \in Lists(I, C), Register!Distinct(l),
         NEW same \in SUBSET DOMAIN l, NEW c \in C,
         NEW fresh \in SUBSET I, fresh \cap IdsIn(l) = {}, NEW m \in Posted(l, same, c, fresh)
  PROVE  Fine(l, m, I, C)
<1>1. /\ Len(l) \in 0..MaxItems /\ Len(l) \in Nat /\ DOMAIN l = 1..Len(l)
      /\ l \in Seq([id : I, at : C])
      /\ \A j \in 1..Len(l) : l[j] \in [id : I, at : C]
  BY ListIs
<1>2. CASE same # {}
  <2> DEFINE k == Min(same)
  <2>1. m = Replaced(l, k, c)
    BY <1>2 DEF Posted
  <2>2. CASE k \in DOMAIN l
    BY <2>1, <2>2, ReplacedFine
  <2>3. CASE k \notin DOMAIN l
    <3>1. m = l
      BY <2>1, <2>3, <1>1 DEF Replaced
    <3>2. Register!ListEdit(l, l)
      BY DEF Register!ListEdit
    <3> QED
      BY <3>1, <3>2 DEF Fine
  <2> QED
    BY <2>2, <2>3
<1>3. CASE same = {}
  <2>1. PICK x \in fresh : m = Append(l, [id |-> x, at |-> c]) /\ Len(l) < MaxItems
    BY <1>3 DEF Posted
  <2> DEFINE item == [id |-> x, at |-> c]
  <2>2. item \in [id : I, at : C] /\ item.id \notin IdsIn(l)
    BY <2>1
  <2> HIDE DEF item
  <2>3. /\ m \in Seq([id : I, at : C]) /\ Len(m) = Len(l) + 1
        /\ \A j \in 1 .. Len(l) + 1 : m[j] = IF j <= Len(l) THEN l[j] ELSE item
    BY <2>1, <2>2, <1>1, AppendProperties DEF item
  <2>4. m \in [1 .. Len(l) + 1 -> [id : I, at : C]] /\ Len(l) + 1 \in 0..MaxItems
    <3>1. m \in [1 .. Len(m) -> [id : I, at : C]]
      BY <2>3, LenProperties
    <3>2. Len(l) + 1 \in 0..MaxItems
      BY <2>1, <1>1, EditsAssumption
    <3> QED
      BY <3>1, <3>2, <2>3
  <2>5. m \in Lists(I, C) /\ DOMAIN m = 1 .. Len(l) + 1
    BY <2>4, IsList
  <2>6. Register!Distinct(m)
    BY <2>2, <2>3, <2>5, <1>1 DEF Register!Distinct, IdsIn
  <2>7. Register!ListEdit(l, m)
    <3>1. \A j \in DOMAIN l : m[j] = l[j]
      BY <2>3, <1>1
    <3> QED
      BY <3>1, <2>3 DEF Register!ListEdit
  <2> QED
    BY <2>5, <2>6, <2>7 DEF Fine
<1> QED
  BY <1>2, <1>3

\* Putting the items in another order.
LEMMA ReorderedFine ==
  ASSUME NEW I, NEW C, NEW l \in Lists(I, C), Register!Distinct(l),
         NEW p \in Orders(Len(l)), NEW m, m = [i \in DOMAIN l |-> l[p[i]]]
  PROVE  Fine(l, m, I, C)
<1> DEFINE n == Len(l)
<1>1. /\ n \in 0..MaxItems /\ n \in Nat /\ DOMAIN l = 1..n
      /\ \A j \in 1..n : l[j] \in [id : I, at : C]
  BY ListIs
<1>2. /\ p \in [1..n -> 1..n]
      /\ \A i, j \in 1..n : p[i] = p[j] => i = j
      /\ \A j \in 1..n : \E i \in 1..n : p[i] = j
  BY DEF Orders
<1>3. m \in [1..n -> [id : I, at : C]] /\ \A i \in 1..n : m[i] = l[p[i]]
  BY <1>1, <1>2
<1> HIDE DEF n
<1>4. m \in Lists(I, C) /\ Len(m) = n /\ DOMAIN m = 1..n
  BY <1>1, <1>3, IsList
<1>5. Register!Distinct(m)
  BY <1>1, <1>2, <1>3, <1>4 DEF Register!Distinct
<1>6. {m[i] : i \in 1..n} = {l[i] : i \in 1..n}
  <2>1. ASSUME NEW x \in {m[i] : i \in 1..n} PROVE x \in {l[i] : i \in 1..n}
    <3>1. PICK i \in 1..n : x = m[i]
      OBVIOUS
    <3> QED
      BY <3>1, <1>2, <1>3
  <2>2. ASSUME NEW x \in {l[i] : i \in 1..n} PROVE x \in {m[i] : i \in 1..n}
    <3>1. PICK j \in 1..n : x = l[j]
      OBVIOUS
    <3>2. PICK i \in 1..n : p[i] = j
      BY <1>2
    <3> QED
      BY <3>1, <3>2, <1>3
  <2> QED
    BY <2>1, <2>2
<1>7. Register!ListEdit(l, m)
  BY <1>1, <1>4, <1>6 DEF Register!ListEdit, n
<1> QED
  BY <1>4, <1>5, <1>7 DEF Fine

\* A backup's items become a list whose identifiers are distinct, whatever the backup held.
LEMMA CleanItemsSound ==
  ASSUME NEW I, NEW C, NoId \notin I, NEW l \in Lists(I \cup {NoId}, C),
         NEW fresh \in SUBSET I, NEW m \in CleanItems(l, I, fresh)
  PROVE  m \in Lists(I, C) /\ Register!Distinct(m)
<1> DEFINE n == Len(l)
<1>1. /\ n \in 0..MaxItems /\ n \in Nat /\ DOMAIN l = 1..n
      /\ \A j \in 1..n : l[j] \in [id : I \cup {NoId}, at : C]
  BY ListIs
<1> HIDE DEF n
<1>2. PICK f \in [1..n -> I] :
        /\ m = [i \in 1..n |-> [id |-> f[i], at |-> l[i].at]]
        /\ \A i \in 1..n : IF Keeps(l, i, I) THEN f[i] = l[i].id
                           ELSE f[i] \in fresh /\ \A j \in 1..n : f[i] = f[j] => i = j
  BY <1>1 DEF CleanItems
<1>3. m \in [1..n -> [id : I, at : C]] /\ \A i \in 1..n : m[i].id = f[i]
  BY <1>1, <1>2
<1>4. m \in Lists(I, C) /\ DOMAIN m = 1..n
  BY <1>1, <1>3, IsList
<1>5. ASSUME NEW i \in 1..n, NEW j \in 1..n, i < j, f[i] = f[j] PROVE FALSE
  <2>1. Keeps(l, i, I) /\ Keeps(l, j, I)
    BY <1>2, <1>5, <1>1
  <2>2. l[i].id = l[j].id
    BY <1>2, <1>5, <2>1
  <2> QED
    BY <2>1, <2>2, <1>5, <1>1 DEF Keeps
<1>6. ASSUME NEW i \in 1..n, NEW j \in 1..n, f[i] = f[j] PROVE i = j
  BY <1>5, <1>6, <1>1
<1> QED
  BY <1>3, <1>4, <1>6 DEF Register!Distinct

-----------------------------------------------------------------------------
(* Edits *)

Good(c) == c \in Configs /\ Register!Sound(c)

\* What an edit of a good configuration leads to.
Changed(c, d) == Good(d) /\ Register!Edited(c, d)

\* A configuration with other miners is as good as its list of miners.
LEMMA MinersChanged ==
  ASSUME NEW c, Good(c), NEW m, Fine(c.miners, m, MinerIds, Places)
  PROVE  LET d == [c EXCEPT !.miners = m] IN Changed(c, d) /\ d.hermes.token = c.hermes.token
<1> DEFINE d == [c EXCEPT !.miners = m]
<1>1. d \in Configs
  BY DEF Good, Fine, Configs
<1>2. /\ d.app = c.app /\ d.discord = c.discord /\ d.hermes = c.hermes /\ d.pools = c.pools
      /\ d.miners = m
  BY DEF Good, Configs
<1> HIDE DEF d
<1>3. Register!Sound(d)
  BY <1>2 DEF Good, Fine, Register!Sound
<1>4. Register!Edited(c, d)
  BY <1>2, <1>3 DEF Fine, Register!Edited, Register!Same
<1> QED
  BY <1>1, <1>2, <1>3, <1>4 DEF Changed, Good, d

\* And so for the pools.
LEMMA PoolsChanged ==
  ASSUME NEW c, Good(c), NEW m, Fine(c.pools, m, PoolIds, Monitors)
  PROVE  LET d == [c EXCEPT !.pools = m] IN Changed(c, d) /\ d.hermes.token = c.hermes.token
<1> DEFINE d == [c EXCEPT !.pools = m]
<1>1. d \in Configs
  BY DEF Good, Fine, Configs
<1>2. /\ d.app = c.app /\ d.discord = c.discord /\ d.hermes = c.hermes /\ d.miners = c.miners
      /\ d.pools = m
  BY DEF Good, Configs
<1> HIDE DEF d
<1>3. Register!Sound(d)
  BY <1>2 DEF Good, Fine, Register!Sound
<1>4. Register!Edited(c, d)
  BY <1>2, <1>3 DEF Fine, Register!Edited, Register!Same
<1> QED
  BY <1>1, <1>2, <1>3, <1>4 DEF Changed, Good, d

\* The edits of the miners.
LEMMA MinerEdits ==
  ASSUME NEW c, Good(c), NEW a \in Places,
         NEW fresh \in SUBSET MinerIds, fresh \cap IdsIn(c.miners) = {}
  PROVE  /\ \A d \in PostMiner(c, a, fresh) : Changed(c, d) /\ d.hermes.token = c.hermes.token
         /\ \A i \in DOMAIN c.miners : \A d \in {PutMiner(c, i, a)} :
              Changed(c, d) /\ d.hermes.token = c.hermes.token
<1>1. c.miners \in Lists(MinerIds, Places) /\ Register!Distinct(c.miners)
  BY DEF Good, Configs, Register!Sound
<1>2. ASSUME NEW d \in PostMiner(c, a, fresh) PROVE Changed(c, d) /\ d.hermes.token = c.hermes.token
  <2> DEFINE same == {i \in DOMAIN c.miners : SameMiner(c.miners[i], a)}
  <2>1. PICK m \in Posted(c.miners, same, a, fresh) : d = [c EXCEPT !.miners = m]
    BY <1>2 DEF PostMiner
  <2>2. same \in SUBSET DOMAIN c.miners
    OBVIOUS
  <2> HIDE DEF same
  <2>3. Fine(c.miners, m, MinerIds, Places)
    BY <1>1, <2>1, <2>2, PostedFine
  <2> QED
    BY <2>1, <2>3, MinersChanged
<1>3. ASSUME NEW i \in DOMAIN c.miners
      PROVE  LET d == PutMiner(c, i, a) IN Changed(c, d) /\ d.hermes.token = c.hermes.token
  <2> DEFINE m == Replaced(c.miners, i, a)
  <2>1. Fine(c.miners, m, MinerIds, Places)
    BY <1>1, ReplacedFine
  <2>2. PutMiner(c, i, a) = [c EXCEPT !.miners = m]
    BY DEF PutMiner, Good, Configs
  <2> HIDE DEF m
  <2> QED
    BY <2>1, <2>2, MinersChanged
<1> QED
  BY <1>2, <1>3

\* A miner is removed.
LEMMA MinerDeleted ==
  ASSUME NEW c, Good(c), NEW i \in DOMAIN c.miners
  PROVE  LET d == DeleteMiner(c, i) IN Changed(c, d) /\ d.hermes.token = c.hermes.token
<1> DEFINE m == Dropped(c.miners, i)
<1>1. Fine(c.miners, m, MinerIds, Places)
  BY DroppedFine DEF Good, Configs, Register!Sound
<1>2. DeleteMiner(c, i) = [c EXCEPT !.miners = m]
  BY DEF DeleteMiner, Good, Configs
<1> HIDE DEF m
<1> QED
  BY <1>1, <1>2, MinersChanged

\* The miners are put in another order.
LEMMA MinersReordered ==
  ASSUME NEW c, Good(c), NEW d \in Reorder(c)
  PROVE  Changed(c, d) /\ d.hermes.token = c.hermes.token
<1>1. c.miners \in Lists(MinerIds, Places) /\ Register!Distinct(c.miners)
  BY DEF Good, Configs, Register!Sound
<1>2. PICK p \in Orders(Len(c.miners)) :
        d = [c EXCEPT !.miners = [i \in DOMAIN c.miners |-> c.miners[p[i]]]]
  BY DEF Reorder
<1> DEFINE m == [i \in DOMAIN c.miners |-> c.miners[p[i]]]
<1>3. Fine(c.miners, m, MinerIds, Places)
  BY <1>1, ReorderedFine
<1> HIDE DEF m
<1>4. d = [c EXCEPT !.miners = m]
  BY <1>2 DEF m
<1> QED
  BY <1>3, <1>4, MinersChanged

\* The edits of the pools.
LEMMA PoolEdits ==
  ASSUME NEW c, Good(c), NEW a \in Monitors,
         NEW fresh \in SUBSET PoolIds, fresh \cap IdsIn(c.pools) = {}
  PROVE  /\ \A d \in PostPool(c, a, fresh) : Changed(c, d) /\ d.hermes.token = c.hermes.token
         /\ \A i \in DOMAIN c.pools : \A d \in {PutPool(c, i, a)} :
              Changed(c, d) /\ d.hermes.token = c.hermes.token
<1>1. c.pools \in Lists(PoolIds, Monitors) /\ Register!Distinct(c.pools)
  BY DEF Good, Configs, Register!Sound
<1>2. ASSUME NEW d \in PostPool(c, a, fresh) PROVE Changed(c, d) /\ d.hermes.token = c.hermes.token
  <2> DEFINE same == {i \in DOMAIN c.pools : SamePool(c.pools[i], a)}
  <2>1. PICK m \in Posted(c.pools, same, a, fresh) : d = [c EXCEPT !.pools = m]
    BY <1>2 DEF PostPool
  <2>2. same \in SUBSET DOMAIN c.pools
    OBVIOUS
  <2> HIDE DEF same
  <2>3. Fine(c.pools, m, PoolIds, Monitors)
    BY <1>1, <2>1, <2>2, PostedFine
  <2> QED
    BY <2>1, <2>3, PoolsChanged
<1>3. ASSUME NEW i \in DOMAIN c.pools
      PROVE  LET d == PutPool(c, i, a) IN Changed(c, d) /\ d.hermes.token = c.hermes.token
  <2> DEFINE m == Replaced(c.pools, i, a)
  <2>1. Fine(c.pools, m, PoolIds, Monitors)
    BY <1>1, ReplacedFine
  <2>2. PutPool(c, i, a) = [c EXCEPT !.pools = m]
    BY DEF PutPool, Good, Configs
  <2> HIDE DEF m
  <2> QED
    BY <2>1, <2>2, PoolsChanged
<1> QED
  BY <1>2, <1>3

\* A pool is removed.
LEMMA PoolDeleted ==
  ASSUME NEW c, Good(c), NEW i \in DOMAIN c.pools
  PROVE  LET d == DeletePool(c, i) IN Changed(c, d) /\ d.hermes.token = c.hermes.token
<1> DEFINE m == Dropped(c.pools, i)
<1>1. Fine(c.pools, m, PoolIds, Monitors)
  BY DroppedFine DEF Good, Configs, Register!Sound
<1>2. DeletePool(c, i) = [c EXCEPT !.pools = m]
  BY DEF DeletePool, Good, Configs
<1> HIDE DEF m
<1> QED
  BY <1>1, <1>2, PoolsChanged

\* The settings form keeps the token.
LEMMA SettingsChanged ==
  ASSUME NEW c, Good(c), NEW s \in Forms, NEW d \in Settings(c, s)
  PROVE  Changed(c, d) /\ d.hermes.token = c.hermes.token
<1> DEFINE hook == HookAfter(c, s)
           acked == c.app.acked \/ s.ack
<1>1. hook \in BOOLEAN /\ acked \in BOOLEAN
  BY DEF HookAfter
<1>2. /\ s.control => acked
      /\ s.hermes => c.hermes.token # 0
      /\ s.discord => hook
      /\ d = [c EXCEPT !.app = [enabled |-> s.control, acked |-> acked],
                       !.discord = [enabled |-> s.discord, hook |-> hook],
                       !.hermes.enabled = s.hermes]
  BY DEF Settings
<1>3. s.control \in BOOLEAN /\ s.hermes \in BOOLEAN /\ s.discord \in BOOLEAN
  BY DEF Forms
<1>4. c.app.acked => acked
  OBVIOUS
<1> HIDE DEF hook, acked
<1>5. /\ d.app = [enabled |-> s.control, acked |-> acked]
      /\ d.discord = [enabled |-> s.discord, hook |-> hook]
      /\ d.hermes = [enabled |-> s.hermes, token |-> c.hermes.token]
      /\ d.miners = c.miners /\ d.pools = c.pools
      /\ d \in Configs
  BY <1>1, <1>2, <1>3 DEF Good, Configs
<1>6. Register!Sound(d)
  BY <1>2, <1>5 DEF Good, Register!Sound
<1>7. Register!SettingsEdit(c, d)
  BY <1>2, <1>4, <1>5 DEF Register!SettingsEdit, Register!Same
<1> QED
  BY <1>5, <1>6, <1>7 DEF Changed, Good, Register!Edited

\* A token is made: Hermes stays on or off.
LEMMA TokenMade ==
  ASSUME NEW c, Good(c), NEW t \in 1..MaxToken, t # c.hermes.token
  PROVE  LET d == MakeToken(c, t) IN Changed(c, d) /\ d.hermes.token = t
<1> DEFINE d == MakeToken(c, t)
<1>1. /\ d.app = c.app /\ d.discord = c.discord /\ d.miners = c.miners /\ d.pools = c.pools
      /\ d.hermes.token = t /\ d.hermes.enabled = c.hermes.enabled
      /\ d \in Configs
  BY EditsAssumption DEF Good, Configs, MakeToken
<1> HIDE DEF d
<1>2. t # 0
  OBVIOUS
<1>3. Register!Sound(d)
  BY <1>1, <1>2 DEF Good, Register!Sound
<1>4. Register!TokenEdit(c, d)
  BY <1>1 DEF Register!TokenEdit, Register!Same
<1> QED
  BY <1>1, <1>3, <1>4 DEF Changed, Good, Register!Edited, d

\* The token is deleted, and Hermes is off.
LEMMA TokenDropped ==
  ASSUME NEW c, Good(c)
  PROVE  LET d == DropToken(c) IN Changed(c, d) /\ d.hermes.token = 0
<1> DEFINE d == DropToken(c)
<1>1. /\ d.app = c.app /\ d.discord = c.discord /\ d.miners = c.miners /\ d.pools = c.pools
      /\ d.hermes = [enabled |-> FALSE, token |-> 0]
  BY DEF Good, Configs, DropToken
<1>2. d \in Configs
  <2>1. [enabled |-> FALSE, token |-> 0] \in [enabled : BOOLEAN, token : 0..MaxToken]
    BY EditsAssumption
  <2> QED
    BY <2>1 DEF Good, Configs, DropToken
<1> HIDE DEF d
<1>3. Register!Sound(d)
  BY <1>1 DEF Good, Register!Sound
<1>4. Register!TokenEdit(c, d)
  BY <1>1 DEF Register!TokenEdit, Register!Same
<1> QED
  BY <1>1, <1>2, <1>3, <1>4 DEF Changed, Good, Register!Edited, d

\* A backup is restored into a good configuration, whatever it held.
LEMMA Restored ==
  ASSUME NEW c, Good(c), NEW b \in Backups,
         NEW fm \in SUBSET MinerIds, NEW fp \in SUBSET PoolIds, NEW d \in Restore(c, b, fm, fp)
  PROVE  Changed(c, d) /\ d.hermes.token = c.hermes.token
<1>1. PICK m \in CleanItems(b.miners, MinerIds, fm), p \in CleanItems(b.pools, PoolIds, fp) :
        d = [app |-> CleanApp(b, c.app),
             discord |-> [c.discord EXCEPT !.enabled = b.discord /\ c.discord.hook],
             hermes |-> [c.hermes EXCEPT !.enabled = b.hermes /\ c.hermes.token # 0],
             miners |-> m, pools |-> p]
  BY DEF Restore
<1>2. m \in Lists(MinerIds, Places) /\ Register!Distinct(m)
  BY CleanItemsSound, EditsAssumption DEF Backups
<1>3. p \in Lists(PoolIds, Monitors) /\ Register!Distinct(p)
  BY CleanItemsSound, EditsAssumption DEF Backups
<1>4. CleanApp(b, c.app) \in [enabled : BOOLEAN, acked : BOOLEAN]
  BY DEF CleanApp, Backups, Good, Configs
<1>5. /\ c.discord \in [enabled : BOOLEAN, hook : BOOLEAN]
      /\ c.hermes \in [enabled : BOOLEAN, token : 0..MaxToken]
  BY DEF Good, Configs
<1>6. /\ d.discord = [enabled |-> b.discord /\ c.discord.hook, hook |-> c.discord.hook]
      /\ d.hermes = [enabled |-> b.hermes /\ c.hermes.token # 0, token |-> c.hermes.token]
      /\ d.miners = m /\ d.pools = p
  BY <1>1, <1>5
<1>7. d \in Configs
  BY <1>1, <1>2, <1>3, <1>4, <1>5 DEF Configs
<1>8. Register!Sound(d)
  <2> DEFINE discord == b.discord /\ c.discord.hook
             hermes == b.hermes /\ c.hermes.token # 0
  <2>1. /\ discord \in BOOLEAN /\ (discord => c.discord.hook)
        /\ hermes \in BOOLEAN /\ (hermes => c.hermes.token # 0)
    OBVIOUS
  <2>2. /\ d.discord = [enabled |-> discord, hook |-> c.discord.hook]
        /\ d.hermes = [enabled |-> hermes, token |-> c.hermes.token]
    BY <1>6
  <2> HIDE DEF discord, hermes
  <2> QED
    BY <2>1, <2>2, <1>2, <1>3, <1>6 DEF Register!Sound
<1>9. Register!RestoreEdit(c, d)
  BY <1>6 DEF Register!RestoreEdit
<1> QED
  BY <1>6, <1>7, <1>8, <1>9 DEF Changed, Good, Register!Edited

-----------------------------------------------------------------------------
(* The inductive invariant *)

\* Only a running process is in the middle of a commit, of a good configuration.
Committing ==
  /\ step > 0 => up /\ Good(new)
  /\ step = 1 => file = Torn /\ Register!Edited(memory, new)
  /\ step > 1 => file = new
  /\ file # Torn => Good(file)
  /\ up /\ step = 0 /\ file # Torn => memory = file

\* The sections of the dictionary that have been refilled.
Refilled ==
  /\ step > 3 => memory.app = new.app
  /\ step > 5 => memory.discord = new.discord
  /\ step = 7 => ~memory.hermes.enabled
  /\ step > 7 => memory.hermes = new.hermes
  /\ step > 8 => memory.miners = new.miners
  /\ step > 9 => memory.pools = new.pools

\* The services that have been told.
Told ==
  /\ up /\ step < 2 => "alerts" \notin stale /\ "control" \notin stale
  /\ step > 10 => "alerts" \notin stale
  /\ step > 11 => "control" \notin stale

\* A token that is being committed is none, the one there is, or one nobody was shown.
Tokens ==
  /\ memory.hermes.token \in 0..made
  /\ file # Torn => file.hermes.token \in 0..made
  /\ step > 0 => new.hermes.token \in 0..made
  /\ step \in 1..6 => new.hermes.token \in {0, memory.hermes.token} \/ new.hermes.token > told

\* What an MCP request may find when it reads the token: none, the one that was in force when it
\* read the switch, or one that is newer than any that was shown by then.
MayFind(token) == token \in {0, request.seen} \/ token > request.token

Requests ==
  /\ ~up => request.phase = "none"
  /\ request.phase # "none" => /\ request.token \in 1..told
                               /\ MayFind(memory.hermes.token)
                               /\ step > 0 => MayFind(new.hermes.token)

IInv == TypeOK /\ Committing /\ Refilled /\ Told /\ Tokens /\ Requests /\ AuthorizedTogether

\* What is at each step of a commit.
LEMMA StepIs ==
  /\ Len(CommitSteps) = 14
  /\ \A k \in 1..14 :
       LET do == CommitSteps[k].do  what == CommitSteps[k].what IN
       /\ do = "write" => k = 1
       /\ do = "clear" => \/ k = 2 /\ what = "app"
                          \/ k = 4 /\ what = "discord"
                          \/ k = 6 /\ what = "hermes"
       /\ do = "fill" => \/ k = 3 /\ what = "app"
                         \/ k = 5 /\ what = "discord"
                         \/ k = 7 /\ what = "hermes"
                         \/ k = 8 /\ what = "miners"
                         \/ k = 9 /\ what = "pools"
       /\ do = "adopt" => /\ k \in 10..14
                          /\ k = 10 => what = "alerts"
                          /\ k = 11 => what = "control"
                          /\ what = "feed" => k = 12
<1>1. Len(CommitSteps) = 14
  BY DEF CommitSteps
<1>2. /\ CommitSteps[1] = Step("write", "file")
      /\ CommitSteps[2] = Step("clear", "app") /\ CommitSteps[3] = Step("fill", "app")
      /\ CommitSteps[4] = Step("clear", "discord") /\ CommitSteps[5] = Step("fill", "discord")
      /\ CommitSteps[6] = Step("clear", "hermes") /\ CommitSteps[7] = Step("fill", "hermes")
      /\ CommitSteps[8] = Step("fill", "miners") /\ CommitSteps[9] = Step("fill", "pools")
      /\ CommitSteps[10] = Step("adopt", "alerts") /\ CommitSteps[11] = Step("adopt", "control")
      /\ CommitSteps[12] = Step("adopt", "feed") /\ CommitSteps[13] = Step("adopt", "poller")
      /\ CommitSteps[14] = Step("adopt", "health")
  BY DEF CommitSteps
<1>3. ASSUME NEW do, NEW what PROVE Step(do, what).do = do /\ Step(do, what).what = what
  BY DEF Step
<1>4. \A k \in 1..14 : \/ k = 1 \/ k = 2 \/ k = 3 \/ k = 4 \/ k = 5 \/ k = 6 \/ k = 7
                       \/ k = 8 \/ k = 9 \/ k = 10 \/ k = 11 \/ k = 12 \/ k = 13 \/ k = 14
  OBVIOUS
<1> QED
  BY <1>1, <1>2, <1>3, <1>4

\* The first configuration is good.
LEMMA DefaultGood == Good(Default)
<1>1. <<>> \in Lists(MinerIds, Places) /\ <<>> \in Lists(PoolIds, Monitors)
  <2>1. <<>> \in [1..0 -> [id : MinerIds, at : Places]]
    OBVIOUS
  <2>2. <<>> \in [1..0 -> [id : PoolIds, at : Monitors]]
    OBVIOUS
  <2>3. 0 \in 0..MaxItems
    BY EditsAssumption
  <2> QED
    BY <2>1, <2>2, <2>3 DEF Lists
<1>2. Default \in Configs
  BY <1>1, EditsAssumption DEF Configs, Default
<1>3. Register!Sound(Default)
  BY DEF Default, Register!Sound, Register!Distinct
<1> QED
  BY <1>2, <1>3 DEF Good

\* A download of a good configuration is a backup.
LEMMA SafeBackupIs ==
  ASSUME NEW c \in Configs
  PROVE  SafeBackup(c) \in Backups
<1>1. ASSUME NEW I, NEW C, NEW l \in Lists(I, C) PROVE l \in Lists(I \cup {NoId}, C)
  <2>1. PICK n \in 0..MaxItems : l \in [1..n -> [id : I, at : C]]
    BY <1>1 DEF Lists
  <2>2. l \in [1..n -> [id : I \cup {NoId}, at : C]]
    BY <2>1
  <2> QED
    BY <2>1, <2>2, IsList
<1>2. /\ c.miners \in Lists(MinerIds \cup {NoId}, Places)
      /\ c.pools \in Lists(PoolIds \cup {NoId}, Monitors)
      /\ c.app \in [enabled : BOOLEAN, acked : BOOLEAN]
  BY <1>1 DEF Configs
<1> QED
  BY <1>2 DEF SafeBackup, Backups

\* What a section reads as between the two steps that refill it.
LEMMA ClearedIs ==
  /\ Cleared("app") = [enabled |-> FALSE, acked |-> FALSE]
  /\ Cleared("discord") = [enabled |-> FALSE, hook |-> FALSE]
  /\ Cleared("hermes") = [enabled |-> FALSE, token |-> 0]
  BY DEF Cleared, Default

\* A configuration is its sections.
LEMMA SameSections ==
  ASSUME NEW c \in Configs, NEW d \in Configs, c.app = d.app, c.discord = d.discord,
         c.hermes = d.hermes, c.miners = d.miners, c.pools = d.pools
  PROVE  c = d
  BY DEF Configs

-----------------------------------------------------------------------------
(* The steps *)

\* A first start.
LEMMA InitKeeps == Init => IInv
<1> SUFFICES ASSUME Init PROVE IInv
  OBVIOUS
<1>1. backup \in Backups /\ request = NoRequest
  BY StoreAssumption DEF Init
<1>2. Default.hermes.token = 0
  BY DEF Default
<1>3. TypeOK
  BY <1>1, DefaultGood, EditsAssumption, StoreAssumption
     DEF Init, TypeOK, Good, NoRequest, ServiceSet
<1>4. Committing /\ Refilled /\ Told
  BY DefaultGood DEF Init, Committing, Refilled, Told
<1>5. Tokens /\ Requests /\ AuthorizedTogether
  BY <1>1, <1>2, EditsAssumption, StoreAssumption, DefaultGood
     DEF Init, Tokens, Requests, AuthorizedTogether, NoRequest, Good
<1> QED
  BY <1>3, <1>4, <1>5 DEF IInv

\* What every edit begins.
Begun ==
  /\ up /\ step = 0 /\ step' = 1
  /\ Changed(memory, new')
  /\ file' = Torn
  /\ edits' \in 0..MaxEdits
  /\ \/ made' = made /\ new'.hermes.token \in {0, memory.hermes.token}
     \/ made < MaxToken /\ made' = made + 1 /\ new'.hermes.token = made'
  /\ up' = up /\ memory' = memory /\ stale' = stale /\ backup' = backup
  /\ told' = told /\ request' = request

\* An edit that is committed begins with a good configuration, if all it may lead to are good.
LEMMA CommitBegins ==
  ASSUME IInv, NEW es, Commit(es),
         \A d \in es : Changed(memory, d) /\ d.hermes.token \in {0, memory.hermes.token}
  PROVE  Begun
<1>1. step = 0 /\ edits + 1 \in 0..MaxEdits
  BY StoreAssumption DEF Commit, Begin, IInv, TypeOK
<1> QED
  BY <1>1 DEF Commit, Begin, Begun

\* Every request that edits begins with one.
LEMMA EditBegins ==
  ASSUME IInv, EditMiners \/ EditPools \/ EditSettings \/ EditToken \/ RestoreBackup
  PROVE  Begun
<1> DEFINE Kept(d) == Changed(memory, d) /\ d.hermes.token = memory.hermes.token
<1>1. Good(memory) /\ backup \in Backups
  BY DEF IInv, TypeOK, Good
<1>2. /\ FreshMiners \in SUBSET MinerIds /\ FreshMiners \cap IdsIn(memory.miners) = {}
      /\ FreshPools \in SUBSET PoolIds /\ FreshPools \cap IdsIn(memory.pools) = {}
  BY DEF FreshMiners, FreshPools
<1>3. CASE EditMiners
  <2>1. CASE \E m \in Places : Commit(PostMiner(memory, m, FreshMiners))
    BY <2>1, <1>1, <1>2, MinerEdits, CommitBegins
  <2>2. CASE \E i \in DOMAIN memory.miners : \E m \in Places : Commit({PutMiner(memory, i, m)})
    <3>1. PICK i \in DOMAIN memory.miners, m \in Places : Commit({PutMiner(memory, i, m)})
      BY <2>2
    <3>2. Kept(PutMiner(memory, i, m))
      BY <1>1, <1>2, MinerEdits
    <3> QED
      BY <3>1, <3>2, CommitBegins
  <2>3. CASE \E i \in DOMAIN memory.miners : Commit({DeleteMiner(memory, i)})
    BY <2>3, <1>1, MinerDeleted, CommitBegins
  <2>4. CASE Commit(Reorder(memory))
    BY <2>4, <1>1, MinersReordered, CommitBegins
  <2> QED
    BY <1>3, <2>1, <2>2, <2>3, <2>4 DEF EditMiners
<1>4. CASE EditPools
  <2>1. CASE \E p \in Monitors : Commit(PostPool(memory, p, FreshPools))
    BY <2>1, <1>1, <1>2, PoolEdits, CommitBegins
  <2>2. CASE \E i \in DOMAIN memory.pools : \E p \in Monitors : Commit({PutPool(memory, i, p)})
    <3>1. PICK i \in DOMAIN memory.pools, p \in Monitors : Commit({PutPool(memory, i, p)})
      BY <2>2
    <3>2. Kept(PutPool(memory, i, p))
      BY <1>1, <1>2, PoolEdits
    <3> QED
      BY <3>1, <3>2, CommitBegins
  <2>3. CASE \E i \in DOMAIN memory.pools : Commit({DeletePool(memory, i)})
    BY <2>3, <1>1, PoolDeleted, CommitBegins
  <2> QED
    BY <1>4, <2>1, <2>2, <2>3 DEF EditPools
<1>5. CASE EditSettings
  <2>1. PICK s \in Sent : Commit(Settings(memory, s))
    BY <1>5 DEF EditSettings
  <2>2. s \in Forms
    BY StoreAssumption
  <2> QED
    BY <2>1, <2>2, <1>1, SettingsChanged, CommitBegins
<1>6. CASE EditToken
  <2>1. CASE made < MaxToken /\ Begin({MakeToken(memory, made + 1)}) /\ made' = made + 1
    <3>1. /\ step = 0 /\ edits + 1 \in 0..MaxEdits /\ made + 1 \in 1..MaxToken
          /\ memory.hermes.token # made + 1
      BY <2>1, StoreAssumption, EditsAssumption DEF Begin, IInv, TypeOK, Tokens
    <3>2. Changed(memory, MakeToken(memory, made + 1))
          /\ MakeToken(memory, made + 1).hermes.token = made + 1
      BY <3>1, <1>1, TokenMade
    <3> QED
      BY <2>1, <3>1, <3>2 DEF Begin, Begun
  <2>2. CASE Commit({DropToken(memory)})
    BY <2>2, <1>1, TokenDropped, CommitBegins
  <2> QED
    BY <1>6, <2>1, <2>2 DEF EditToken
<1>7. CASE RestoreBackup
  BY <1>7, <1>1, <1>2, Restored, CommitBegins DEF RestoreBackup
<1> QED
  BY <1>3, <1>4, <1>5, <1>6, <1>7

\* The beginning of a commit: the configuration that is there is the old one.
LEMMA EditKeeps ==
  ASSUME IInv, Begun
  PROVE  IInv'
<1>1. TypeOK'
  <2>1. new' \in Configs /\ new' # Nothing
    BY StoreAssumption DEF Begun, Changed, Good
  <2>2. made' \in 0..MaxToken /\ told' \in 0..made' /\ made \in 0..made'
    BY EditsAssumption DEF Begun, IInv, TypeOK
  <2>3. request' \in [phase : {"none", "enabled", "accepted"}, token : 0..told', seen : 0..made']
    BY <2>2 DEF Begun, IInv, TypeOK
  <2> QED
    BY <2>1, <2>2, <2>3, StepIs DEF Begun, IInv, TypeOK
<1>2. Committing' /\ Refilled' /\ Told'
  BY DEF Begun, Changed, IInv, Committing, Refilled, Told
<1>3. Tokens'
  <2>1. made \in 0..MaxToken /\ told \in 0..made /\ memory.hermes.token \in 0..made
    BY DEF IInv, TypeOK, Tokens
  <2>2. made \in Nat /\ told \in Nat
    BY <2>1, EditsAssumption
  <2> QED
    BY <2>1, <2>2 DEF Begun, Tokens
<1>4. Requests' /\ AuthorizedTogether'
  <2>1. made \in 0..MaxToken /\ told \in 0..made /\ memory.hermes.token \in 0..made
    BY DEF IInv, TypeOK, Tokens
  <2>2. made \in Nat /\ told \in Nat
    BY <2>1, EditsAssumption
  <2> QED
    BY <2>1, <2>2 DEF Begun, IInv, Requests, MayFind, AuthorizedTogether
<1> QED
  BY <1>1, <1>2, <1>3, <1>4 DEF IInv

\* A backup is downloaded.
LEMMA DownloadKeeps ==
  ASSUME IInv, Download
  PROVE  IInv'
<1>1. backup' \in Backups
  BY SafeBackupIs DEF Download, IInv, TypeOK
<1> QED
  BY <1>1
     DEF Download, IInv, TypeOK, Committing, Refilled, Told, Tokens, MayFind, Requests,
         AuthorizedTogether

\* The file holds the new configuration from here on.
LEMMA WriteKeeps ==
  ASSUME IInv, Write
  PROVE  IInv'
<1>1. step = 1 /\ step' = 2 /\ file' = new /\ Good(new) /\ step' \in 0..Len(CommitSteps)
  BY StepIs DEF Write, Doing, IInv, TypeOK, Committing
<1> QED
  BY <1>1, StoreAssumption
     DEF Write, IInv, TypeOK, Good, Committing, Refilled, Told, Tokens, MayFind, Requests,
         AuthorizedTogether

\* The file stays cut off, and the dictionary what it was.
LEMMA WriteFailsKeeps ==
  ASSUME IInv, WriteFails
  PROVE  IInv'
<1>1. step = 1 /\ up /\ file = Torn
  BY StepIs DEF WriteFails, Doing, IInv, TypeOK, Committing
<1> QED
  BY <1>1, StoreAssumption
     DEF WriteFails, Abandoned, IInv, TypeOK, Committing, Refilled, Told, Tokens, MayFind,
         Requests, AuthorizedTogether

\* A section that is empty has nothing on.
LEMMA ClearKeeps ==
  ASSUME IInv, Clear
  PROVE  IInv'
<1>1. step \in 1..14
  BY StepIs DEF Clear, Doing, IInv, TypeOK
<1>2. /\ up /\ Good(new) /\ file = new /\ memory \in Configs /\ Register!Sound(memory)
      /\ memory' = [memory EXCEPT ![Section] = Cleared(Section)]
      /\ step' = step + 1 /\ stale' = ServiceSet
      /\ \/ step = 2 /\ Section = "app"
         \/ step = 4 /\ Section = "discord"
         \/ step = 6 /\ Section = "hermes"
  BY <1>1, StepIs DEF Clear, Doing, Section, IInv, TypeOK, Committing
<1>3. CASE step = 2
  <2>0. Section = "app"
    BY <1>2, <1>3
  <2>1. memory' = [memory EXCEPT !["app"] = [enabled |-> FALSE, acked |-> FALSE]]
    BY <2>0, <1>2, ClearedIs, Zenon
  <2>2. memory' \in Configs
    <3>1. [enabled |-> FALSE, acked |-> FALSE] \in [enabled : BOOLEAN, acked : BOOLEAN]
      OBVIOUS
    <3> QED
      BY <3>1, <2>1, <1>2 DEF Configs
  <2>3. /\ memory'.discord = memory.discord /\ memory'.hermes = memory.hermes
        /\ memory'.miners = memory.miners /\ memory'.pools = memory.pools
    BY <2>1, <1>2 DEF Configs
  <2>4. Register!Sound(memory')
    BY <2>3, <1>2 DEF Register!Sound
  <2> QED
    BY <2>2, <2>3, <2>4, <1>2, <1>3, StepIs
       DEF Clear, IInv, TypeOK, Committing, Refilled, Told, Tokens, MayFind, Requests,
           AuthorizedTogether
<1>4. CASE step = 4
  <2>0. Section = "discord"
    BY <1>2, <1>4
  <2>1. memory' = [memory EXCEPT !["discord"] = [enabled |-> FALSE, hook |-> FALSE]]
    BY <2>0, <1>2, ClearedIs, Zenon
  <2>2. memory' \in Configs
    <3>1. [enabled |-> FALSE, hook |-> FALSE] \in [enabled : BOOLEAN, hook : BOOLEAN]
      OBVIOUS
    <3> QED
      BY <3>1, <2>1, <1>2 DEF Configs
  <2>3. /\ memory'.app = memory.app /\ memory'.hermes = memory.hermes
        /\ memory'.miners = memory.miners /\ memory'.pools = memory.pools
        /\ memory'.discord = [enabled |-> FALSE, hook |-> FALSE]
    BY <2>1, <1>2 DEF Configs
  <2>4. Register!Sound(memory')
    BY <2>3, <1>2 DEF Register!Sound
  <2> QED
    BY <2>2, <2>3, <2>4, <1>2, <1>4, StepIs
       DEF Clear, IInv, TypeOK, Committing, Refilled, Told, Tokens, MayFind, Requests,
           AuthorizedTogether
<1>5. CASE step = 6
  <2>0. Section = "hermes"
    BY <1>2, <1>5
  <2>1. memory' = [memory EXCEPT !["hermes"] = [enabled |-> FALSE, token |-> 0]]
    BY <2>0, <1>2, ClearedIs, Zenon
  <2>2. memory' \in Configs
    <3>1. [enabled |-> FALSE, token |-> 0] \in [enabled : BOOLEAN, token : 0..MaxToken]
      BY EditsAssumption
    <3> QED
      BY <3>1, <2>1, <1>2 DEF Configs
  <2>3. /\ memory'.app = memory.app /\ memory'.discord = memory.discord
        /\ memory'.miners = memory.miners /\ memory'.pools = memory.pools
        /\ memory'.hermes = [enabled |-> FALSE, token |-> 0]
    BY <2>1, <1>2 DEF Configs
  <2>4. Register!Sound(memory')
    BY <2>3, <1>2 DEF Register!Sound
  <2> QED
    BY <2>2, <2>3, <2>4, <1>2, <1>5, StepIs, EditsAssumption
       DEF Clear, IInv, TypeOK, Committing, Refilled, Told, Tokens, MayFind, Requests,
           AuthorizedTogether
<1> QED
  BY <1>2, <1>3, <1>4, <1>5

\* A section that is refilled is that of the new configuration, which is good.
LEMMA FillKeeps ==
  ASSUME IInv, Fill
  PROVE  IInv'
<1>1. step \in 1..14
  BY StepIs DEF Fill, Doing, IInv, TypeOK
<1>2. /\ up /\ Good(new) /\ file = new /\ memory \in Configs /\ Register!Sound(memory)
      /\ memory' = [memory EXCEPT ![Section] = new[Section]]
      /\ step' = step + 1
      /\ \/ step = 3 /\ Section = "app"
         \/ step = 5 /\ Section = "discord"
         \/ step = 7 /\ Section = "hermes"
         \/ step = 8 /\ Section = "miners"
         \/ step = 9 /\ Section = "pools"
  BY <1>1, StepIs DEF Fill, Doing, Section, IInv, TypeOK, Committing
<1>3. CASE step = 3
  <2>0. Section = "app"
    BY <1>2, <1>3
  <2>1. memory' = [memory EXCEPT !["app"] = new["app"]]
    BY <2>0, <1>2, Zenon
  <2>2. memory' \in Configs
    BY <2>1, <1>2 DEF Configs, Good
  <2>3. /\ memory'.discord = memory.discord /\ memory'.hermes = memory.hermes
        /\ memory'.miners = memory.miners /\ memory'.pools = memory.pools
        /\ memory'.app = new.app
    BY <2>1, <1>2 DEF Configs
  <2>4. Register!Sound(memory')
    BY <2>3, <1>2 DEF Register!Sound, Good
  <2> QED
    BY <2>2, <2>3, <2>4, <1>2, <1>3, StepIs, EditsAssumption
       DEF Fill, IInv, TypeOK, Committing, Refilled, Told, Tokens, MayFind, Requests,
           AuthorizedTogether
<1>4. CASE step = 5
  <2>0. Section = "discord"
    BY <1>2, <1>4
  <2>1. memory' = [memory EXCEPT !["discord"] = new["discord"]]
    BY <2>0, <1>2, Zenon
  <2>2. memory' \in Configs
    BY <2>1, <1>2 DEF Configs, Good
  <2>3. /\ memory'.app = memory.app /\ memory'.hermes = memory.hermes
        /\ memory'.miners = memory.miners /\ memory'.pools = memory.pools
        /\ memory'.discord = new.discord
    BY <2>1, <1>2 DEF Configs
  <2>4. Register!Sound(memory')
    BY <2>3, <1>2 DEF Register!Sound, Good
  <2> QED
    BY <2>2, <2>3, <2>4, <1>2, <1>4, StepIs, EditsAssumption
       DEF Fill, IInv, TypeOK, Committing, Refilled, Told, Tokens, MayFind, Requests,
           AuthorizedTogether
<1>5. CASE step = 7
  <2>0. Section = "hermes"
    BY <1>2, <1>5
  <2>1. memory' = [memory EXCEPT !["hermes"] = new["hermes"]]
    BY <2>0, <1>2, Zenon
  <2>2. memory' \in Configs
    BY <2>1, <1>2 DEF Configs, Good
  <2>3. /\ memory'.app = memory.app /\ memory'.discord = memory.discord
        /\ memory'.miners = memory.miners /\ memory'.pools = memory.pools
        /\ memory'.hermes = new.hermes
    BY <2>1, <1>2 DEF Configs
  <2>4. Register!Sound(memory')
    BY <2>3, <1>2 DEF Register!Sound, Good
  <2> QED
    BY <2>2, <2>3, <2>4, <1>2, <1>5, StepIs, EditsAssumption
       DEF Fill, IInv, TypeOK, Committing, Refilled, Told, Tokens, MayFind, Requests,
           AuthorizedTogether
<1>6. CASE step = 8
  <2>0. Section = "miners"
    BY <1>2, <1>6
  <2>1. memory' = [memory EXCEPT !["miners"] = new["miners"]]
    BY <2>0, <1>2, Zenon
  <2>2. memory' \in Configs
    BY <2>1, <1>2 DEF Configs, Good
  <2>3. /\ memory'.app = memory.app /\ memory'.discord = memory.discord
        /\ memory'.hermes = memory.hermes /\ memory'.pools = memory.pools
        /\ memory'.miners = new.miners
    BY <2>1, <1>2 DEF Configs
  <2>4. Register!Sound(memory')
    BY <2>3, <1>2 DEF Register!Sound, Good
  <2> QED
    BY <2>2, <2>3, <2>4, <1>2, <1>6, StepIs, EditsAssumption
       DEF Fill, IInv, TypeOK, Committing, Refilled, Told, Tokens, MayFind, Requests,
           AuthorizedTogether
<1>7. CASE step = 9
  <2>0. Section = "pools"
    BY <1>2, <1>7
  <2>1. memory' = [memory EXCEPT !["pools"] = new["pools"]]
    BY <2>0, <1>2, Zenon
  <2>2. memory' \in Configs
    BY <2>1, <1>2 DEF Configs, Good
  <2>3. /\ memory'.app = memory.app /\ memory'.discord = memory.discord
        /\ memory'.hermes = memory.hermes /\ memory'.miners = memory.miners
        /\ memory'.pools = new.pools
    BY <2>1, <1>2 DEF Configs
  <2>4. Register!Sound(memory')
    BY <2>3, <1>2 DEF Register!Sound, Good
  <2> QED
    BY <2>2, <2>3, <2>4, <1>2, <1>7, StepIs, EditsAssumption
       DEF Fill, IInv, TypeOK, Committing, Refilled, Told, Tokens, MayFind, Requests,
           AuthorizedTogether
<1> QED
  BY <1>2, <1>3, <1>4, <1>5, <1>6, <1>7

\* The last step of a commit: the dictionary is what the file says.
LEMMA AnswerKeeps ==
  ASSUME IInv, step \in 12..14, Answer, stale' \subseteq stale,
         UNCHANGED <<up, memory, file, backup, edits, made, request>>
  PROVE  IInv'
<1>0. /\ up' = up /\ memory' = memory /\ file' = file /\ backup' = backup /\ edits' = edits
      /\ made' = made /\ request' = request /\ new' = Nothing /\ step' = 0 /\ told' = made
  BY DEF Answer, Abandoned
<1>1. up /\ file = new /\ Good(new) /\ memory = new
  BY SameSections DEF IInv, TypeOK, Committing, Refilled, Good
<1>2. "alerts" \notin stale /\ "control" \notin stale
  BY DEF IInv, Told
<1>3. made \in 0..MaxToken /\ told \in 0..made /\ made \in Nat /\ told \in Nat
  BY EditsAssumption DEF IInv, TypeOK
<1>4. request \in [phase : {"none", "enabled", "accepted"}, token : 0..made, seen : 0..made]
  BY <1>3 DEF IInv, TypeOK
<1>5. TypeOK'
  BY <1>0, <1>3, <1>4, StepIs DEF IInv, TypeOK
<1> QED
  BY <1>0, <1>1, <1>2, <1>3, <1>5
     DEF IInv, Committing, Refilled, Told, Tokens, MayFind, Requests, AuthorizedTogether

\* A service is told.
LEMMA AdoptKeeps ==
  ASSUME IInv, Adopt
  PROVE  IInv'
<1>1. step \in 10..14 /\ (step = 10 => Section = "alerts") /\ (step = 11 => Section = "control")
  BY StepIs DEF Adopt, Doing, Section, IInv, TypeOK
<1>2. CASE step = Len(CommitSteps) /\ Answer
  BY <1>2, <1>1, StepIs, AnswerKeeps DEF Adopt
<1>3. CASE step < Len(CommitSteps) /\ step' = step + 1 /\ UNCHANGED <<new, told>>
  <2>1. /\ up' = up /\ memory' = memory /\ file' = file /\ backup' = backup /\ edits' = edits
        /\ made' = made /\ request' = request /\ new' = new /\ told' = told /\ step' = step + 1
        /\ stale' = stale \ {Section} /\ step \in 10..13
    BY <1>1, <1>3, StepIs DEF Adopt
  <2>2. TypeOK'
    BY <2>1, StepIs DEF IInv, TypeOK
  <2>3. Told'
    BY <2>1, <1>1 DEF IInv, Told
  <2> QED
    BY <2>1, <2>2, <2>3
       DEF IInv, Committing, Refilled, Told, Tokens, MayFind, Requests, AuthorizedTogether
<1> QED
  BY <1>2, <1>3 DEF Adopt

\* The pool service fails when all that must be told was told.
LEMMA AdoptFailsKeeps ==
  ASSUME IInv, AdoptFails
  PROVE  IInv'
<1>1. step = 12
  BY StepIs DEF AdoptFails, Doing, Section, IInv, TypeOK
<1> QED
  BY <1>1, AnswerKeeps DEF AdoptFails

\* The process ends and starts again.
LEMMA ProcessKeeps ==
  ASSUME IInv, Crash \/ Start \/ RemoveFile
  PROVE  IInv'
<1>1. NoRequest \in [phase : {"none", "enabled", "accepted"}, token : 0..told, seen : 0..made]
  BY EditsAssumption DEF NoRequest, IInv, TypeOK
<1>2. CASE Crash
  <2>1. /\ up' = FALSE /\ new' = Nothing /\ step' = 0 /\ request' = NoRequest
        /\ memory' = memory /\ file' = file /\ stale' = stale /\ backup' = backup
        /\ edits' = edits /\ made' = made /\ told' = told
    BY <1>2 DEF Crash, Abandoned
  <2>2. TypeOK'
    <3>1. request' \in [phase : {"none", "enabled", "accepted"}, token : 0..told', seen : 0..made']
      BY <2>1, <1>1
    <3>2. new' \in Configs \cup {Nothing} /\ step' \in 0..Len(CommitSteps)
      BY <2>1, StepIs
    <3> QED
      BY <2>1, <3>1, <3>2 DEF IInv, TypeOK
  <2>3. Committing' /\ Refilled' /\ Told' /\ Tokens'
    BY <2>1 DEF IInv, Committing, Refilled, Told, Tokens
  <2>4. Requests' /\ AuthorizedTogether'
    BY <2>1 DEF NoRequest, Requests, AuthorizedTogether
  <2> QED
    BY <2>2, <2>3, <2>4 DEF IInv
<1>3. CASE Start
  BY <1>3
     DEF Start, Good, IInv, TypeOK, Committing, Refilled, Told, Tokens, MayFind, Requests,
         AuthorizedTogether
<1>4. CASE RemoveFile
  <2>1. Default.hermes.token = 0
    BY DEF Default
  <2> QED
    BY <1>4, <2>1, DefaultGood, EditsAssumption
       DEF RemoveFile, Good, IInv, TypeOK, Committing, Refilled, Told, Tokens, MayFind,
           Requests, AuthorizedTogether
<1> QED
  BY <1>2, <1>3, <1>4

\* An MCP request: the token it finds is the one it saw, none, or too new to be the one it carries.
LEMMA RequestKeeps ==
  ASSUME IInv, Ask \/ Authorize \/ Respond
  PROVE  IInv'
<1>0. /\ made \in 0..MaxToken /\ told \in 0..made /\ made \in Nat /\ told \in Nat
      /\ memory.hermes.token \in 0..made
  BY EditsAssumption DEF IInv, TypeOK, Tokens
<1>1. NoRequest \in [phase : {"none", "enabled", "accepted"}, token : 0..told, seen : 0..made]
  BY <1>0 DEF NoRequest
<1>2. CASE Ask
  <2>1. PICK t \in 1..told :
          request' = [phase |-> "enabled", token |-> t, seen |-> memory.hermes.token]
    BY <1>2 DEF Ask
  <2>2. request' \in [phase : {"none", "enabled", "accepted"}, token : 0..told, seen : 0..made]
    BY <2>1, <1>0
  <2>3. step > 0 => new.hermes.token \in {0, memory.hermes.token} \/ new.hermes.token > told
    <3>1. step \in 0..14 /\ memory.hermes.enabled
      BY <1>2, StepIs DEF Ask, IInv, TypeOK
    <3>2. CASE step \in 1..6
      BY <3>2 DEF IInv, Tokens
    <3>3. CASE step > 6
      BY <3>1, <3>3 DEF IInv, Refilled
    <3> QED
      BY <3>1, <3>2, <3>3
  <2>4. step > 0 => new.hermes.token \in 0..made
    BY DEF IInv, Tokens
  <2>5. Requests'
    BY <1>2, <1>0, <2>1, <2>3, <2>4 DEF Ask, Requests, MayFind
  <2> QED
    BY <1>2, <2>1, <2>2, <2>5
       DEF Ask, IInv, TypeOK, Committing, Refilled, Told, Tokens, AuthorizedTogether
<1>3. CASE Authorize
  <2>1. \/ /\ request' = [request EXCEPT !.phase = "accepted"]
           /\ memory.hermes.token = request.token
        \/ request' = NoRequest
    BY <1>3 DEF Authorize
  <2>2. request' \in [phase : {"none", "enabled", "accepted"}, token : 0..told, seen : 0..made]
    BY <2>1, <1>1 DEF IInv, TypeOK
  <2>3. Requests' /\ AuthorizedTogether'
    BY <1>3, <1>0, <2>1, <2>2
       DEF Authorize, NoRequest, IInv, TypeOK, Requests, MayFind, AuthorizedTogether
  <2> QED
    BY <1>3, <2>2, <2>3 DEF Authorize, IInv, TypeOK, Committing, Refilled, Told, Tokens
<1>4. CASE Respond
  BY <1>1, <1>4
     DEF Respond, NoRequest, IInv, TypeOK, Committing, Refilled, Told, Tokens, MayFind,
         Requests, AuthorizedTogether
<1> QED
  BY <1>2, <1>3, <1>4

\* Every step.
LEMMA StepKeeps == IInv /\ [Next]_vars => IInv'
<1> SUFFICES ASSUME IInv, [Next]_vars PROVE IInv'
  OBVIOUS
<1>1. CASE EditMiners \/ EditPools \/ EditSettings \/ EditToken \/ RestoreBackup
  BY <1>1, EditBegins, EditKeeps
<1>2. CASE Download \/ Write \/ WriteFails \/ Clear \/ Fill \/ Adopt \/ AdoptFails
  BY <1>2, DownloadKeeps, WriteKeeps, WriteFailsKeeps, ClearKeeps, FillKeeps, AdoptKeeps,
     AdoptFailsKeeps
<1>3. CASE Crash \/ Start \/ RemoveFile \/ Ask \/ Authorize \/ Respond
  BY <1>3, ProcessKeeps, RequestKeeps
<1>4. CASE UNCHANGED vars
  BY <1>4
     DEF vars, IInv, TypeOK, Committing, Refilled, Told, Tokens, MayFind, Requests,
         AuthorizedTogether
<1> QED
  BY <1>1, <1>2, <1>3, <1>4 DEF Next

-----------------------------------------------------------------------------
(* The theorems *)

\* The invariant holds in every behaviour.
LEMMA Inductive == Spec => []IInv
<1>1. Init => IInv
  BY InitKeeps
<1>2. IInv /\ [Next]_vars => IInv'
  BY StepKeeps
<1> QED
  BY <1>1, <1>2, PTL DEF Spec

\* Whatever is posted, restored or deleted, and whenever the process ends, the dictionary and the
\* file are sound at every moment: nothing is on without what it needs, and an identifier names
\* one item (main.py:75, config_transfer.py).
THEOREM TypeCorrect == Spec => []TypeOK
<1>1. IInv => TypeOK
  BY DEF IInv
<1> QED
  BY <1>1, Inductive, PTL

\* A request that was let in carried the token that was in force when access was seen to be enabled
\* (main.py:821), although another thread refills the dictionary between the two reads.
THEOREM AuthorizedTogetherHolds == Spec => []AuthorizedTogether
<1>1. IInv => AuthorizedTogether
  BY DEF IInv
<1> QED
  BY <1>1, Inductive, PTL

\* No request is answered before the alerts and the controls have the new configuration
\* (main.py:75), also when the pool service fails after them.
THEOREM ControlsFollowHolds == Spec => []ControlsFollow
<1>1. IInv => ControlsFollow
  BY DEF IInv, TypeOK, Told, ControlsFollow
<1> QED
  BY <1>1, Inductive, PTL

\* What the users of the store see of a step: one of the register's, or nothing.
LEMMA StepImplements == IInv /\ [Next]_vars => [Register!RegisterNext]_(Register!registerVars)
<1> DEFINE value == IF file = Torn THEN memory ELSE file
           exposed == file = Torn
<1> SUFFICES ASSUME IInv, [Next]_vars
             PROVE  \/ ~exposed /\ exposed' /\ value' = value
                    \/ exposed /\ ~exposed' /\ Register!Edited(value, value')
                    \/ exposed /\ ~exposed' /\ value' = Default
                    \/ exposed' = exposed /\ value' = value
  BY DEF Register!RegisterNext, Register!Begin, Register!Complete, Register!Lose,
         Register!registerVars
<1>1. CASE EditMiners \/ EditPools \/ EditSettings \/ EditToken \/ RestoreBackup
  <2>1. Begun
    BY <1>1, EditBegins
  <2> QED
    BY <2>1 DEF Begun, IInv, Committing
<1>2. CASE Write
  <2>1. step = 1 /\ file = Torn /\ file' = new /\ new # Nothing /\ Good(new)
        /\ Register!Edited(memory, new)
    BY <1>2, StepIs DEF Write, Doing, IInv, TypeOK, Committing
  <2>2. file' # Torn
    BY <2>1, StoreAssumption DEF Good
  <2> QED
    BY <2>1, <2>2
<1>3. CASE RemoveFile
  <2>1. file' # Torn
    BY <1>3, DefaultGood, StoreAssumption DEF RemoveFile, Good
  <2> QED
    BY <1>3, <2>1 DEF RemoveFile
<1>4. CASE Clear \/ Fill
  <2>1. step \in 1..14 /\ step # 1
    BY <1>4, StepIs DEF Clear, Fill, Doing, IInv, TypeOK
  <2>2. file # Torn /\ file' = file
    BY <1>4, <2>1, StoreAssumption DEF Clear, Fill, IInv, Committing, Good
  <2> QED
    BY <2>2
<1>5. CASE Start
  BY <1>5 DEF Start
<1>6. CASE \/ Download \/ WriteFails \/ Adopt \/ AdoptFails \/ Crash
           \/ Ask \/ Authorize \/ Respond \/ UNCHANGED vars
  <2>1. file' = file /\ memory' = memory
    BY <1>6 DEF Download, WriteFails, Adopt, AdoptFails, Crash, Ask, Authorize, Respond, vars
  <2> QED
    BY <2>1
<1> QED
  BY <1>1, <1>2, <1>3, <1>4, <1>5, <1>6 DEF Next

\* The configuration is one value that every edit takes on from the one before it, and that is lost
\* only with a save that did not come to its end (config_store.py:113): whoever reads the file or,
\* while it is being written, the dictionary, sees a register.
THEOREM Implements == Spec => ImplementsRegister
<1>1. Init => Register!RegisterInit
  <2>1. Default # Torn
    BY DefaultGood, StoreAssumption DEF Good
  <2> QED
    BY <2>1 DEF Init, Register!RegisterInit
<1>2. IInv /\ [Next]_vars => [Register!RegisterNext]_(Register!registerVars)
  BY StepImplements
<1> QED
  BY <1>1, <1>2, Inductive, PTL DEF Spec, ImplementsRegister, Register!RegisterSpec
=============================================================================
