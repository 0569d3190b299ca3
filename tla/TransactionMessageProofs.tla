---------------------- MODULE TransactionMessageProofs ----------------------
(***************************************************************************)
(* Proofs about the messages vault transactions store: for every list of   *)
(* instructions, every message other tools store and every lookup table.   *)
(***************************************************************************)
EXTENDS TransactionMessage, MessageCompilationProofs

AccountMeta == [address : Key, role : Role]

\* What a stored message is, of which instructions and lookups it was made.
MessageType(m) ==
  /\ m.accountKeys \in Seq(Key) /\ m.lookups \in Seq(Lookup)
  /\ m.numSigners \in Nat /\ m.numWritableSigners \in 1 .. m.numSigners
  /\ m.numWritableNonSigners \in Nat

TablesType ==
  DOMAIN tables \subseteq Key /\ \A table \in DOMAIN tables : tables[table] \in Seq(Key)

\* Accounts asked for in one role form a sequence of metas.
LEMMA AccountsOf ==
  ASSUME NEW n \in Nat, NEW f, NEW role \in Role, \A j \in 1 .. n : f[j] \in Key
  PROVE  LET metas == [j \in 1 .. n |-> Meta(f[j], role)]
         IN  /\ metas \in Seq(AccountMeta) /\ Len(metas) = n
             /\ \A j \in 1 .. n : metas[j] = Meta(f[j], role)
<1> DEFINE metas == [j \in 1 .. n |-> Meta(f[j], role)]
<1>1. metas \in [1 .. n -> AccountMeta]
  BY DEF Meta, AccountMeta
<1>2. \A j \in 1 .. n : metas[j] = Meta(f[j], role)
  OBVIOUS
<1> HIDE DEF metas
<1>3. metas \in Seq(AccountMeta)
  BY <1>1, SeqDef
<1>4. Len(metas) = n
  BY <1>1, <1>3, LenProperties
<1> QED BY <1>2, <1>3, <1>4 DEF metas

\* What a lookup loads: the addresses it writes, then those it only reads.
LEMMA LoadsOf ==
  ASSUME NEW lookup \in Lookup, TablesType, lookup.table \in DOMAIN tables,
         ToSet(lookup.writable) \cup ToSet(lookup.readonly)
           \subseteq DOMAIN tables[lookup.table]
  PROVE  LET load(positions, role) ==
               [j \in DOMAIN positions |-> Meta(tables[lookup.table][positions[j]], role)]
             loads == load(lookup.writable, Writable) \o load(lookup.readonly, ReadOnly)
         IN  /\ loads \in Seq(AccountMeta)
             /\ Len(lookup.writable) \in Nat /\ Len(lookup.readonly) \in Nat
             /\ Len(loads) = Len(lookup.writable) + Len(lookup.readonly)
             /\ \A j \in 1 .. Len(lookup.writable) :
                  loads[j] = Meta(tables[lookup.table][lookup.writable[j]], Writable)
             /\ \A j \in 1 .. Len(lookup.readonly) :
                  loads[Len(lookup.writable) + j]
                    = Meta(tables[lookup.table][lookup.readonly[j]], ReadOnly)
<1> DEFINE table == tables[lookup.table]
           load(positions, role) == [j \in DOMAIN positions |-> Meta(table[positions[j]], role)]
           w == lookup.writable
           r == lookup.readonly
<1>1. table \in Seq(Key)
  BY DEF TablesType
<1>2. DOMAIN table = 1 .. Len(table) /\ \A i \in 1 .. Len(table) : table[i] \in Key
  BY <1>1, Elements, ElementOfSeq
<1>3. w \in Seq(Nat \ {0}) /\ r \in Seq(Nat \ {0})
  BY DEF Lookup
<1>4. /\ Len(w) \in Nat /\ DOMAIN w = 1 .. Len(w) /\ ToSet(w) = {w[j] : j \in 1 .. Len(w)}
      /\ Len(r) \in Nat /\ DOMAIN r = 1 .. Len(r) /\ ToSet(r) = {r[j] : j \in 1 .. Len(r)}
  BY <1>3, Elements
<1>5. /\ \A j \in 1 .. Len(w) : table[w[j]] \in Key
      /\ \A j \in 1 .. Len(r) : table[r[j]] \in Key
  <2>1. /\ \A j \in 1 .. Len(w) : w[j] \in DOMAIN table
        /\ \A j \in 1 .. Len(r) : r[j] \in DOMAIN table
    BY <1>4
  <2> HIDE DEF table, w, r
  <2> QED BY <1>2, <2>1
<1> HIDE DEF table, w, r
<1>6. Writable \in Role /\ ReadOnly \in Role
  BY DEF Writable, ReadOnly, Role
<1>7. ASSUME NEW positions, NEW role \in Role, DOMAIN positions = 1 .. Len(positions),
             Len(positions) \in Nat, \A j \in 1 .. Len(positions) : table[positions[j]] \in Key
      PROVE  /\ load(positions, role) \in Seq(AccountMeta)
             /\ Len(load(positions, role)) = Len(positions)
             /\ \A j \in 1 .. Len(positions) :
                  load(positions, role)[j] = Meta(table[positions[j]], role)
  <2> DEFINE n == Len(positions)
             f == [j \in 1 .. n |-> table[positions[j]]]
  <2>1. \A j \in 1 .. n : f[j] \in Key /\ f[j] = table[positions[j]]
    BY <1>7
  <2>2. load(positions, role) = [j \in 1 .. n |-> Meta(f[j], role)]
    BY <1>7
  <2> HIDE DEF load, f
  <2> QED BY <1>7, <2>1, <2>2, AccountsOf
<1> DEFINE lw == load(w, Writable)
           lr == load(r, ReadOnly)
<1>8. /\ lw \in Seq(AccountMeta) /\ Len(lw) = Len(w)
      /\ \A j \in 1 .. Len(w) : lw[j] = Meta(table[w[j]], Writable)
      /\ lr \in Seq(AccountMeta) /\ Len(lr) = Len(r)
      /\ \A j \in 1 .. Len(r) : lr[j] = Meta(table[r[j]], ReadOnly)
  <2> HIDE DEF load
  <2> QED BY ONLY <1>4, <1>5, <1>6, <1>7
<1> HIDE DEF lw, lr
<1>9. /\ lw \o lr \in Seq(AccountMeta) /\ Len(lw \o lr) = Len(lw) + Len(lr)
      /\ \A j \in 1 .. Len(lw) : (lw \o lr)[j] = lw[j]
      /\ \A j \in 1 .. Len(lr) : (lw \o lr)[Len(lw) + j] = lr[j]
  <2>1. lw \in Seq(AccountMeta) /\ lr \in Seq(AccountMeta)
    BY <1>8
  <2> QED BY ONLY <2>1, Joined
<1> QED BY ONLY <1>4, <1>8, <1>9 DEF lw, lr, table, w, r

\* An execution built while every table resolves passes the accounts the program
\* takes: the tables, the message's keys with their roles, and what is loaded.
LEMMA ResolvedTakes ==
  ASSUME NEW m, MessageType(m), TablesType, TablesResolve(m)
  PROVE  ProgramTakes(m, Resolved(m), tables) /\ Resolved(m) \in Seq(AccountMeta)
<1> DEFINE L == Len(m.lookups)
           N == Len(m.accountKeys)
           load(lookup, positions, role) ==
             [j \in DOMAIN positions |-> Meta(tables[lookup.table][positions[j]], role)]
           loads(lookup) == load(lookup, lookup.writable, Writable)
                              \o load(lookup, lookup.readonly, ReadOnly)
           a == [l \in DOMAIN m.lookups |-> Meta(m.lookups[l].table, ReadOnly)]
           b == [i \in DOMAIN m.accountKeys |-> Meta(m.accountKeys[i], ResolvedRole(m, i))]
           ss == [l \in DOMAIN m.lookups |-> loads(m.lookups[l])]
           c == FlattenSeq(ss)
           ab == a \o b
           t == ab \o c
           size(l) == Len(m.lookups[l].writable) + Len(m.lookups[l].readonly)
           before(l) == Total([k \in 1 .. l - 1 |-> size(k)])
<1>1. Resolved(m) = t
  BY DEF Resolved
<1>2. /\ L \in Nat /\ DOMAIN m.lookups = 1 .. L /\ \A l \in 1 .. L : m.lookups[l] \in Lookup
      /\ ToSet(m.lookups) = {m.lookups[l] : l \in 1 .. L}
      /\ N \in Nat /\ DOMAIN m.accountKeys = 1 .. N /\ \A i \in 1 .. N : m.accountKeys[i] \in Key
  BY Elements, ElementOfSeq DEF MessageType
<1>3. ASSUME NEW l \in 1 .. L
      PROVE  /\ m.lookups[l].table \in DOMAIN tables
             /\ ToSet(m.lookups[l].writable) \cup ToSet(m.lookups[l].readonly)
                  \subseteq DOMAIN tables[m.lookups[l].table]
  BY <1>2 DEF TablesResolve
<1>4. ASSUME NEW l \in 1 .. L
      PROVE  /\ ss[l] \in Seq(AccountMeta)
             /\ Len(m.lookups[l].writable) \in Nat /\ Len(m.lookups[l].readonly) \in Nat
             /\ Len(ss[l]) = size(l) /\ size(l) \in Nat
             /\ \A j \in 1 .. Len(m.lookups[l].writable) :
                  ss[l][j]
                    = Meta(tables[m.lookups[l].table][m.lookups[l].writable[j]], Writable)
             /\ \A j \in 1 .. Len(m.lookups[l].readonly) :
                  ss[l][Len(m.lookups[l].writable) + j]
                    = Meta(tables[m.lookups[l].table][m.lookups[l].readonly[j]], ReadOnly)
  <2>1. ss[l] = loads(m.lookups[l])
    BY <1>2
  <2>2. m.lookups[l] \in Lookup
    BY <1>2
  <2> HIDE DEF ss
  <2>3. /\ Len(ss[l]) = size(l) /\ ss[l] \in Seq(AccountMeta)
        /\ Len(m.lookups[l].writable) \in Nat /\ Len(m.lookups[l].readonly) \in Nat
        /\ \A j \in 1 .. Len(m.lookups[l].writable) :
             ss[l][j] = Meta(tables[m.lookups[l].table][m.lookups[l].writable[j]], Writable)
        /\ \A j \in 1 .. Len(m.lookups[l].readonly) :
             ss[l][Len(m.lookups[l].writable) + j]
               = Meta(tables[m.lookups[l].table][m.lookups[l].readonly[j]], ReadOnly)
    BY <1>3, <2>1, <2>2, LoadsOf
  <2>4. Len(m.lookups[l].writable) \in Nat /\ Len(m.lookups[l].readonly) \in Nat
    BY ONLY <2>3
  <2>5. size(l) \in Nat
    <3> DEFINE w == Len(m.lookups[l].writable)
               r == Len(m.lookups[l].readonly)
    <3>1. w \in Nat /\ r \in Nat
      BY ONLY <2>4
    <3>2. size(l) = w + r
      OBVIOUS
    <3> HIDE DEF w, r, size
    <3>3. w + r \in Nat
      BY ONLY <3>1
    <3> QED BY ONLY <3>2, <3>3
  <2> QED BY ONLY <2>3, <2>5
<1>5. ss \in Seq(Seq(AccountMeta)) /\ Len(ss) = L
  <2>1. ss \in [1 .. L -> Seq(AccountMeta)]
    <3>1. DOMAIN ss = 1 .. L /\ ss = [l \in DOMAIN ss |-> ss[l]]
      BY <1>2
    <3> HIDE DEF ss
    <3> QED BY <1>4, <3>1
  <2> HIDE DEF ss
  <2>2. ss \in Seq(Seq(AccountMeta))
    BY <1>2, <2>1, SeqDef
  <2> QED BY <1>2, <2>1, <2>2, LenProperties
<1> HIDE DEF ss
<1>6. PICK end \in [0 .. L -> Nat] :
        /\ end[0] = 0 /\ end[L] = Len(c)
        /\ \A n \in 1 .. L : end[n] = end[n - 1] + Len(ss[n])
        /\ \A l \in 1 .. L : \A j \in 1 .. Len(ss[l]) :
             end[l - 1] + j \in 1 .. Len(c) /\ c[end[l - 1] + j] = ss[l][j]
  <2>1. ss \in Seq(Seq(AccountMeta))
    BY <1>5
  <2>2. \E end \in [0 .. Len(ss) -> Nat] :
          /\ end[0] = 0 /\ end[Len(ss)] = Len(c)
          /\ \A n \in 1 .. Len(ss) : end[n] = end[n - 1] + Len(ss[n])
          /\ \A l \in 1 .. Len(ss) : \A j \in 1 .. Len(ss[l]) :
               end[l - 1] + j \in 1 .. Len(c) /\ c[end[l - 1] + j] = ss[l][j]
    BY ONLY <2>1, Flattened
  <2>3. Len(ss) = L
    BY <1>5
  <2> HIDE DEF c, L
  <2> QED BY ONLY <2>2, <2>3
<1>7. c \in Seq(AccountMeta)
  BY <1>5, Flattened
<1>8. ASSUME NEW l \in 1 .. L + 1 PROVE before(l) = end[l - 1]
  <2> DEFINE sizes == [k \in 1 .. l - 1 |-> size(k)]
  <2>1. l - 1 \in 0 .. L /\ \A k \in 1 .. l - 1 : k \in 1 .. L
    BY <1>2
  <2>2. sizes \in [1 .. l - 1 -> Nat] /\ \A k \in 1 .. l - 1 : sizes[k] = Len(ss[k])
    <3>1. \A k \in 1 .. l - 1 : size(k) \in Nat /\ size(k) = Len(ss[k])
      <4>1. \A k \in 1 .. L : size(k) \in Nat /\ size(k) = Len(ss[k])
        <5> HIDE DEF size, L
        <5> QED BY ONLY <1>4
      <4> HIDE DEF size, L
      <4> QED BY ONLY <2>1, <4>1
    <3> HIDE DEF size
    <3> QED BY <3>1
  <2> HIDE DEF sizes
  <2>3. sizes \in Seq(Nat) /\ Len(sizes) = l - 1
    <3>1. l - 1 \in Nat
      BY <2>1
    <3>2. sizes \in Seq(Nat)
      BY <2>2, <3>1, SeqDef
    <3> QED BY <2>2, <3>1, <3>2, LenProperties
  <2>4. \A n \in 1 .. Len(sizes) : end[n] = end[n - 1] + sizes[n]
    BY <1>6, <2>1, <2>2, <2>3
  <2>5. Total(sizes) = end[Len(sizes)]
    BY <1>6, <2>3, <2>4, TotalIs
  <2> QED BY <2>3, <2>5 DEF sizes
<1>9. /\ a \in Seq(AccountMeta) /\ Len(a) = L
      /\ \A l \in 1 .. L : a[l] = Meta(m.lookups[l].table, ReadOnly)
  <2>1. \A l \in 1 .. L : a[l] = Meta(m.lookups[l].table, ReadOnly)
    BY <1>2
  <2>2. a \in [1 .. L -> AccountMeta]
    <3>1. \A l \in 1 .. L : Meta(m.lookups[l].table, ReadOnly) \in AccountMeta
      BY <1>2 DEF Meta, AccountMeta, Lookup, ReadOnly, Role
    <3> QED BY <1>2, <3>1
  <2> HIDE DEF a
  <2>3. a \in Seq(AccountMeta)
    BY <1>2, <2>2, SeqDef
  <2> QED BY <1>2, <2>1, <2>2, <2>3, LenProperties
<1>10. /\ b \in Seq(AccountMeta) /\ Len(b) = N
       /\ \A i \in 1 .. N : b[i] = Meta(m.accountKeys[i], ResolvedRole(m, i))
  <2>1. \A i \in 1 .. N : b[i] = Meta(m.accountKeys[i], ResolvedRole(m, i))
    BY <1>2
  <2>2. b \in [1 .. N -> AccountMeta]
    <3>1. \A i \in 1 .. N : Meta(m.accountKeys[i], ResolvedRole(m, i)) \in AccountMeta
      <4>1. \A i : ResolvedRole(m, i) \in Role
        BY DEF ResolvedRole, Role
      <4> QED BY <1>2, <4>1 DEF Meta, AccountMeta
    <3> QED BY <1>2, <3>1
  <2> HIDE DEF b
  <2>3. b \in Seq(AccountMeta)
    BY <1>2, <2>2, SeqDef
  <2> QED BY <1>2, <2>1, <2>2, <2>3, LenProperties
<1> HIDE DEF a, b, c
<1>11. /\ ab \in Seq(AccountMeta) /\ Len(ab) = Len(a) + Len(b)
       /\ \A i \in 1 .. Len(a) : ab[i] = a[i]
       /\ \A j \in 1 .. Len(b) : ab[Len(a) + j] = b[j]
  <2>1. a \in Seq(AccountMeta) /\ b \in Seq(AccountMeta)
    BY <1>9, <1>10
  <2> QED BY ONLY <2>1, Joined
<1> HIDE DEF ab
<1>12. /\ t \in Seq(AccountMeta) /\ Len(t) = Len(ab) + Len(c)
       /\ \A i \in 1 .. Len(ab) : t[i] = ab[i]
       /\ \A j \in 1 .. Len(c) : t[Len(ab) + j] = c[j]
  <2>1. ab \in Seq(AccountMeta) /\ c \in Seq(AccountMeta)
    BY <1>7, <1>11
  <2> QED BY ONLY <2>1, Joined
<1> HIDE DEF t
<1>13. Len(t) = L + N + before(L + 1)
  <2>1. L + 1 \in 1 .. L + 1 /\ (L + 1) - 1 = L
    BY <1>2
  <2>2. before(L + 1) = end[L]
    BY <1>8, <2>1
  <2> HIDE DEF before
  <2> QED BY ONLY <1>6, <1>9, <1>10, <1>11, <1>12, <2>2
<1>14. \A l \in 1 .. L : t[l] = Meta(m.lookups[l].table, ReadOnly)
  <2>1. \A l \in 1 .. L : l \in 1 .. Len(a) /\ l \in 1 .. Len(ab)
    <3>1. L \in Nat /\ N \in Nat /\ Len(a) = L /\ Len(ab) = L + N
      BY <1>2, <1>9, <1>10, <1>11
    <3> HIDE DEF L, N
    <3> QED BY ONLY <3>1
  <2> QED BY ONLY <1>9, <1>11, <1>12, <2>1
<1>15. \A i \in 1 .. N : t[L + i] = Meta(m.accountKeys[i], ResolvedRole(m, i))
  <2>1. \A i \in 1 .. N : i \in 1 .. Len(b) /\ L + i \in 1 .. Len(ab)
    <3>1. L \in Nat /\ N \in Nat /\ Len(b) = N /\ Len(ab) = L + N
      BY <1>2, <1>9, <1>10, <1>11
    <3> HIDE DEF L, N
    <3> QED BY ONLY <3>1
  <2> QED BY ONLY <1>9, <1>10, <1>11, <1>12, <2>1
<1>16. ASSUME NEW l \in 1 .. L, NEW j \in 1 .. Len(ss[l])
       PROVE  t[L + N + before(l) + j] = ss[l][j]
  <2>1. l \in 1 .. L + 1 /\ l - 1 \in 0 .. L
    BY <1>2
  <2>2. before(l) = end[l - 1] /\ end[l - 1] \in Nat
    BY <1>6, <1>8, <2>1
  <2>3. end[l - 1] + j \in 1 .. Len(c) /\ c[end[l - 1] + j] = ss[l][j]
    BY <1>6
  <2> HIDE DEF before
  <2>4. t[Len(ab) + (end[l - 1] + j)] = ss[l][j] /\ Len(ab) = L + N
    BY ONLY <1>9, <1>10, <1>11, <1>12, <2>3
  <2>5. j \in Nat
    <3>1. Len(ss[l]) \in Nat
      BY <1>4
    <3> QED BY ONLY <3>1, j \in 1 .. Len(ss[l])
  <2>6. L + N + before(l) + j = Len(ab) + (end[l - 1] + j)
    <3>1. L \in Nat /\ N \in Nat
      BY <1>2
    <3> HIDE DEF L, N
    <3> QED BY ONLY <2>2, <2>4, <2>5, <3>1
  <2> QED BY ONLY <2>4, <2>6
<1> HIDE DEF L, N
<1>17. ASSUME NEW i \in 1 .. N
       PROVE  LET role == HeaderRole(m, i) IN
              /\ t[L + i].address = m.accountKeys[i]
              /\ role.writable => t[L + i].role.writable
              /\ t[L + i].role.signer
                   <=> role.signer /\ m.accountKeys[i] \notin SignedForByProgram(m)
  <2>1. t[L + i].address = m.accountKeys[i] /\ t[L + i].role = ResolvedRole(m, i)
    <3>1. t[L + i] = Meta(m.accountKeys[i], ResolvedRole(m, i))
      BY ONLY <1>15
    <3> QED BY ONLY <3>1 DEF Meta
  <2>2. i \in Int /\ m.numSigners \in Nat /\ m.numWritableNonSigners \in Nat
    BY <1>2 DEF MessageType
  <2>3. HeaderRole(m, i).writable => ResolvedRole(m, i).writable
    BY <2>2 DEF HeaderRole, ResolvedRole
  <2>4. ResolvedRole(m, i).signer
          <=> HeaderRole(m, i).signer /\ m.accountKeys[i] \notin SignedForByProgram(m)
    BY DEF HeaderRole, ResolvedRole
  <2> QED BY <2>1, <2>3, <2>4
<1>18. ASSUME NEW l \in 1 .. L
       PROVE  LET lookup == m.lookups[l]
                  at(j) == t[L + N + before(l) + j]
              IN  /\ \A j \in 1 .. Len(lookup.writable) :
                       /\ at(j).address = tables[lookup.table][lookup.writable[j]]
                       /\ at(j).role.writable
                  /\ \A j \in 1 .. Len(lookup.readonly) :
                       at(Len(lookup.writable) + j).address
                         = tables[lookup.table][lookup.readonly[j]]
  <2> DEFINE lookup == m.lookups[l]
             w == Len(lookup.writable)
             r == Len(lookup.readonly)
  <2>1. w \in Nat /\ r \in Nat /\ Len(ss[l]) = w + r
    BY <1>4
  <2> HIDE DEF before
  <2>2. ASSUME NEW j \in 1 .. w
        PROVE  /\ t[L + N + before(l) + j].address = tables[lookup.table][lookup.writable[j]]
               /\ t[L + N + before(l) + j].role.writable
    <3>1. j \in 1 .. Len(ss[l])
      <4> HIDE DEF w, r
      <4> QED BY <2>1
    <3>2. t[L + N + before(l) + j] = ss[l][j]
      <4> HIDE DEF w
      <4> QED BY ONLY <1>16, <3>1
    <3>3. ss[l][j] = Meta(tables[lookup.table][lookup.writable[j]], Writable)
      BY <1>4
    <3> QED BY ONLY <3>2, <3>3 DEF Meta, Writable
  <2>3. ASSUME NEW j \in 1 .. r
        PROVE  t[L + N + before(l) + (w + j)].address
                 = tables[lookup.table][lookup.readonly[j]]
    <3>1. w + j \in 1 .. Len(ss[l])
      <4> HIDE DEF w, r
      <4> QED BY <2>1
    <3>2. t[L + N + before(l) + (w + j)] = ss[l][w + j]
      <4> HIDE DEF w
      <4> QED BY ONLY <1>16, <3>1
    <3>3. ss[l][w + j] = Meta(tables[lookup.table][lookup.readonly[j]], ReadOnly)
      BY <1>4
    <3> QED BY ONLY <3>2, <3>3 DEF Meta
  <2> QED BY ONLY <2>2, <2>3
<1>19. ProgramTakes(m, t, tables)
  <2>1. /\ DOMAIN m.lookups = 1 .. L /\ DOMAIN m.accountKeys = 1 .. N
        /\ \A l \in 1 .. L :
             /\ DOMAIN m.lookups[l].writable = 1 .. Len(m.lookups[l].writable)
             /\ DOMAIN m.lookups[l].readonly = 1 .. Len(m.lookups[l].readonly)
    <3>1. ASSUME NEW l \in 1 .. L
          PROVE  /\ DOMAIN m.lookups[l].writable = 1 .. Len(m.lookups[l].writable)
                 /\ DOMAIN m.lookups[l].readonly = 1 .. Len(m.lookups[l].readonly)
      <4>1. m.lookups[l].writable \in Seq(Nat \ {0}) /\ m.lookups[l].readonly \in Seq(Nat \ {0})
        BY <1>2 DEF Lookup
      <4> QED BY ONLY <4>1, Elements
    <3> QED BY <1>2, <3>1
  <2>2. \A l \in 1 .. L : t[l].address = m.lookups[l].table
    <3>1. ASSUME NEW l \in 1 .. L PROVE t[l].address = m.lookups[l].table
      <4>1. t[l] = Meta(m.lookups[l].table, ReadOnly)
        BY ONLY <1>14
      <4> QED BY ONLY <4>1 DEF Meta
    <3> QED BY <3>1
  <2>3. Len(t) = Len(m.lookups) + Len(m.accountKeys) + before(Len(m.lookups) + 1)
    <3> HIDE DEF before
    <3> QED BY ONLY <1>13 DEF L, N
  <2>4. \A l \in DOMAIN m.lookups : t[l].address = m.lookups[l].table
    BY ONLY <2>1, <2>2
  <2>5. \A i \in DOMAIN m.accountKeys :
          LET role == HeaderRole(m, i) IN
          /\ t[Len(m.lookups) + i].address = m.accountKeys[i]
          /\ role.writable => t[Len(m.lookups) + i].role.writable
          /\ t[Len(m.lookups) + i].role.signer
               <=> role.signer /\ m.accountKeys[i] \notin SignedForByProgram(m)
    BY ONLY <1>17, <2>1 DEF L
  <2>6. ASSUME NEW l \in DOMAIN m.lookups
        PROVE  LET lookup == m.lookups[l]
                   at(j) == t[Len(m.lookups) + Len(m.accountKeys) + before(l) + j]
               IN  /\ \A j \in DOMAIN lookup.writable :
                        /\ lookup.table \in DOMAIN tables
                             => at(j).address = tables[lookup.table][lookup.writable[j]]
                        /\ at(j).role.writable
                   /\ \A j \in DOMAIN lookup.readonly :
                        lookup.table \in DOMAIN tables
                          => at(Len(lookup.writable) + j).address
                               = tables[lookup.table][lookup.readonly[j]]
    <3> HIDE DEF before
    <3>1. l \in 1 .. L
      BY <2>1
    <3>2. /\ DOMAIN m.lookups[l].writable = 1 .. Len(m.lookups[l].writable)
          /\ DOMAIN m.lookups[l].readonly = 1 .. Len(m.lookups[l].readonly)
      BY <2>1, <3>1
    <3> DEFINE lookup == m.lookups[l]
               at(j) == t[L + N + before(l) + j]
    <3>3. /\ \A j \in 1 .. Len(lookup.writable) :
               /\ at(j).address = tables[lookup.table][lookup.writable[j]]
               /\ at(j).role.writable
          /\ \A j \in 1 .. Len(lookup.readonly) :
               at(Len(lookup.writable) + j).address = tables[lookup.table][lookup.readonly[j]]
      BY ONLY <1>18, <3>1, Zenon
    <3> QED BY ONLY <3>2, <3>3, Zenon DEF L, N
  <2> DEFINE at(l, j) == t[Len(m.lookups) + Len(m.accountKeys) + before(l) + j]
             Loaded ==
               \A l \in DOMAIN m.lookups :
                 LET lookup == m.lookups[l] IN
                 /\ \A j \in DOMAIN lookup.writable :
                      /\ lookup.table \in DOMAIN tables
                           => at(l, j).address = tables[lookup.table][lookup.writable[j]]
                      /\ at(l, j).role.writable
                 /\ \A j \in DOMAIN lookup.readonly :
                      lookup.table \in DOMAIN tables
                        => at(l, Len(lookup.writable) + j).address
                             = tables[lookup.table][lookup.readonly[j]]
  <2>7. Loaded
    <3> HIDE DEF before
    <3> QED BY ONLY <2>6, Zenon
  <2> QED BY ONLY <2>3, <2>4, <2>5, <2>7, Zenon DEF ProgramTakes, before, size
<1> QED BY <1>1, <1>12, <1>19

(***************************************************************************)
(* What is stored.                                                         *)
(***************************************************************************)

\* A compiled message has the type of one, is a message, and keeps its lookups.
LEMMA CompiledType ==
  ASSUME NEW ins, ins \in Seq(InstructionOver(Key)), NEW ephemeral,
         NEW lookups, lookups \in Seq(Lookup)
  PROVE  LET m == Compiled(Vault, ins, ephemeral, lookups)
         IN  /\ MessageType(m) /\ m # NoMessage
             /\ m.lookups = lookups /\ m.ephemeral = ephemeral
<1> DEFINE m == Compiled(Vault, ins, ephemeral, lookups)
<1>1. Vault \in Key
  BY KeyAssumption
<1>2. /\ m.accountKeys \in Seq(Key) /\ m.accountKeys # <<>>
      /\ m.numSigners \in Nat /\ m.numWritableSigners \in 1 .. m.numSigners
      /\ m.numWritableNonSigners \in Nat
  BY <1>1, CompiledKeys
<1>3. m.lookups = lookups /\ m.ephemeral = ephemeral
  BY DEF Compiled
<1> HIDE DEF m
<1>4. MessageType(m)
  BY <1>2, <1>3 DEF MessageType
<1>5. m # NoMessage
  BY <1>2 DEF NoMessage
<1> QED BY <1>3, <1>4, <1>5 DEF m

\* The roles of the stored keys are those the instructions ask for.
LEMMA CompiledRoles ==
  ASSUME NEW ins, ins \in Seq(InstructionOver(Key)), NEW ephemeral, NEW lookups
  PROVE  LET m == Compiled(Vault, ins, ephemeral, lookups)
         IN  \A i \in 1 .. Len(m.accountKeys) :
               HeaderRole(m, i) = RoleOf(Vault, ins, m.accountKeys[i])
<1>1. Vault \in Key
  BY KeyAssumption
<1> DEFINE m == Compiled(Vault, ins, ephemeral, lookups)
<1>2. \A i \in 1 .. Len(m.accountKeys) :
        RoleOf(Vault, ins, m.accountKeys[i])
          = [signer |-> i <= m.numSigners,
             writable |->
               \/ i <= m.numWritableSigners
               \/ i \in m.numSigners + 1 .. m.numSigners + m.numWritableNonSigners]
  BY <1>1, CompiledKeys
<1> HIDE DEF m
<1>3. \A i \in 1 .. Len(m.accountKeys) : HeaderRole(m, i) = RoleOf(Vault, ins, m.accountKeys[i])
  BY ONLY <1>2 DEF HeaderRole
<1> QED BY <1>3 DEF m

\* When only the vault is asked to sign, it is the only signer.
LEMMA OneSigner ==
  ASSUME NEW ins, ins \in Seq(InstructionOver(Key)), NEW ephemeral, NEW lookups,
         \A meta \in Metas(ins) : meta.role.signer => meta.address = Vault
  PROVE  Compiled(Vault, ins, ephemeral, lookups).numSigners = 1
<1> DEFINE m == Compiled(Vault, ins, ephemeral, lookups)
           keys == m.accountKeys
<1>1. Vault \in Key
  BY KeyAssumption
<1>2. /\ keys \in Seq(Key) /\ Once(keys) /\ keys[1] = Vault
      /\ m.numSigners \in Nat /\ m.numWritableSigners \in 1 .. m.numSigners
      /\ m.numWritableNonSigners \in Nat
      /\ m.numSigners + m.numWritableNonSigners <= Len(keys)
  BY <1>1, CompiledKeys
<1>3. \A i \in 1 .. Len(keys) : HeaderRole(m, i) = RoleOf(Vault, ins, keys[i])
  BY CompiledRoles
<1> HIDE DEF m, keys
<1>4. Len(keys) \in Nat
  BY <1>2, LenProperties
<1>5. ASSUME m.numSigners > 1 PROVE FALSE
  <2>1. 2 \in 1 .. Len(keys) /\ 1 \in 1 .. Len(keys) /\ 2 <= m.numSigners
    BY <1>2, <1>4, <1>5
  <2>2. RoleOf(Vault, ins, keys[2]).signer
    <3>1. HeaderRole(m, 2).signer
      BY <2>1 DEF HeaderRole
    <3> QED BY <1>3, <2>1, <3>1
  <2>3. keys[2] # Vault
    BY <1>2, <2>1 DEF Once
  <2>4. PICK meta \in Metas(ins) : meta.address = keys[2] /\ meta.role.signer
    BY <2>2, <2>3 DEF RoleOf
  <2> QED BY <2>3, <2>4
<1> QED BY <1>2, <1>5 DEF m

\* A transfer from the vault is a list of instructions, and only the vault signs.
LEMMA TransferType ==
  ASSUME NEW to \in TransferTo
  PROVE  /\ Transfer(Vault, to) \in Seq(InstructionOver(Key))
         /\ \A meta \in Metas(Transfer(Vault, to)) : meta.role.signer => meta.address = Vault
<1>1. to \in Key /\ Vault \in Key /\ SystemProgram \in Key
  BY KeyAssumption
<1> DEFINE metas == <<Meta(Vault, WritableSigner), Meta(to, Writable)>>
           instruction == [program |-> SystemProgram, accounts |-> metas, data |-> 12]
<1>2. metas \in Seq([address : Key, role : Role])
  BY <1>1 DEF Meta, WritableSigner, Writable, Role
<1>3. Transfer(Vault, to) = <<instruction>>
  BY DEF Transfer
<1>4. instruction \in InstructionOver(Key)
  <2> HIDE DEF metas
  <2> QED BY <1>1, <1>2 DEF InstructionOver
<1>5. Metas(Transfer(Vault, to)) = {metas[1], metas[2]}
  <2>1. ToSet(metas) = {metas[1], metas[2]}
    BY DEF ToSet
  <2> HIDE DEF metas
  <2>2. ToSet(<<instruction>>) = {instruction} /\ instruction.accounts = metas
    BY DEF ToSet
  <2> QED BY <1>3, <2>1, <2>2 DEF Metas
<1>6. \A meta \in {metas[1], metas[2]} : meta.role.signer => meta.address = Vault
  BY DEF Meta, WritableSigner, Writable
<1> HIDE DEF instruction, metas
<1> QED BY <1>3, <1>4, <1>5, <1>6

(***************************************************************************)
(* The inductive invariant.                                                *)
(***************************************************************************)

\* What is stored was compiled, once, from what was proposed.
StoredIsCompiled ==
  Stored =>
    /\ message.lookups \in Seq(Lookup)
    /\ message = Compiled(Vault, proposed, message.ephemeral, message.lookups)

\* What this package stores needs no signer but the vault, and no table.
ByClientNeedsTheVault ==
  Stored /\ byClient =>
    /\ message.lookups = <<>> /\ message.ephemeral = {}
    /\ \A meta \in Metas(proposed) : meta.role.signer => meta.address = Vault

IInv ==
  /\ byClient \in BOOLEAN
  /\ proposed \in Seq(InstructionOver(Key))
  /\ TablesType
  /\ accounts \in Seq(AccountMeta)
  /\ Stored \/ accounts = <<>>
  /\ StoredIsCompiled
  /\ ByClientNeedsTheVault
  /\ ProgramTakesTheAccounts

\* Initially nothing is stored.
LEMMA InitIInv == Init => IInv
<1> SUFFICES ASSUME Init PROVE IInv
  OBVIOUS
<1>1. byClient \in BOOLEAN /\ ~Stored /\ accounts = <<>> /\ proposed = <<>>
  BY DEF Init, Stored
<1>2. proposed \in Seq(InstructionOver(Key)) /\ accounts \in Seq(AccountMeta)
  BY <1>1, EmptySeq
<1>3. TablesType
  BY LookupAssumption DEF Init, TablesType
<1> QED BY <1>1, <1>2, <1>3 DEF IInv, StoredIsCompiled, ByClientNeedsTheVault,
           ProgramTakesTheAccounts

\* Storing what this package proposes, executed at once or not.
LEMMA ProposeIInv ==
  ASSUME IInv, NEW instructions, instructions \in Seq(InstructionOver(Key)),
         \A meta \in Metas(instructions) : meta.role.signer => meta.address = Vault,
         NEW autoExecute \in BOOLEAN, ProposeInstructions(instructions, autoExecute)
  PROVE  IInv'
<1> DEFINE m == Compiled(Vault, instructions, {}, <<>>)
<1>1. /\ proposed' = instructions /\ byClient' = TRUE /\ message' = m /\ tables' = tables
      /\ accounts' = IF autoExecute THEN Resolved(message') ELSE <<>>
  BY DEF ProposeInstructions, Store
<1>2. <<>> \in Seq(Lookup)
  BY EmptySeq
<1>3. MessageType(m) /\ m # NoMessage /\ m.lookups = <<>> /\ m.ephemeral = {}
  <2>1. \A ephemeral, lookups :
          lookups \in Seq(Lookup)
            => LET stored == Compiled(Vault, instructions, ephemeral, lookups)
               IN  /\ MessageType(stored) /\ stored # NoMessage
                   /\ stored.lookups = lookups /\ stored.ephemeral = ephemeral
    BY CompiledType
  <2> QED BY <1>2, <2>1, Zenon
<1>4. TablesType /\ TablesType'
  BY <1>1 DEF IInv, TablesType
<1>5. TablesResolve(m)
  BY <1>3 DEF TablesResolve, ToSet
<1> HIDE DEF m
<1>6. ProgramTakes(m, Resolved(m), tables) /\ Resolved(m) \in Seq(AccountMeta)
  BY <1>3, <1>4, <1>5, ResolvedTakes
<1>7. Stored'
  BY <1>1, <1>3 DEF Stored
<1>8. accounts' = <<>> \/ accounts' = Resolved(m)
  <2>1. accounts' = <<>> \/ accounts' = Resolved(message')
    BY <1>1, Zenon
  <2> QED BY <1>1, <2>1
<1>9. accounts' \in Seq(AccountMeta)
  BY <1>6, <1>8, EmptySeq
<1>10. StoredIsCompiled'
  <2>1. m = Compiled(Vault, instructions, m.ephemeral, m.lookups)
    BY <1>3 DEF m
  <2> QED BY <1>1, <1>2, <1>3, <2>1 DEF StoredIsCompiled
<1>11. ByClientNeedsTheVault'
  BY <1>1, <1>3 DEF ByClientNeedsTheVault
<1>12. ProgramTakesTheAccounts'
  <2>1. CASE accounts' = <<>>
    BY <2>1 DEF ProgramTakesTheAccounts
  <2>2. CASE accounts' = Resolved(m)
    <3>1. message' = m /\ tables' = tables
      BY <1>1
    <3>2. ProgramTakes(message', accounts', tables')
      BY ONLY <1>6, <2>2, <3>1
    <3> QED BY <3>2 DEF ProgramTakesTheAccounts
  <2> QED BY <1>8, <2>1, <2>2
<1>13. byClient' \in BOOLEAN /\ proposed' \in Seq(InstructionOver(Key))
  BY <1>1
<1> QED BY <1>4, <1>7, <1>9, <1>10, <1>11, <1>12, <1>13 DEF IInv

\* What a table that is closed no longer holds is not compared.
LEMMA TakesWithoutTable ==
  ASSUME NEW m, NEW metas, NEW held, NEW table, ProgramTakes(m, metas, held)
  PROVE  ProgramTakes(m, metas, [t \in DOMAIN held \ {table} |-> held[t]])
<1> DEFINE left == [t \in DOMAIN held \ {table} |-> held[t]]
<1>1. \A t : t \in DOMAIN left => t \in DOMAIN held /\ left[t] = held[t]
  OBVIOUS
<1> HIDE DEF left
<1> DEFINE loadedBefore(l) ==
             Total([k \in 1 .. l - 1 |-> Len(m.lookups[k].writable) + Len(m.lookups[k].readonly)])
           at(l, j) == metas[Len(m.lookups) + Len(m.accountKeys) + loadedBefore(l) + j]
           Loaded(over) ==
             \A l \in DOMAIN m.lookups :
               LET lookup == m.lookups[l] IN
               /\ \A j \in DOMAIN lookup.writable :
                    /\ lookup.table \in DOMAIN over
                         => at(l, j).address = over[lookup.table][lookup.writable[j]]
                    /\ at(l, j).role.writable
               /\ \A j \in DOMAIN lookup.readonly :
                    lookup.table \in DOMAIN over
                      => at(l, Len(lookup.writable) + j).address
                           = over[lookup.table][lookup.readonly[j]]
<1>2. Loaded(held)
  BY ONLY ProgramTakes(m, metas, held), Zenon DEF ProgramTakes
<1>3. Loaded(left)
  <2> HIDE DEF at
  <2> QED BY ONLY <1>1, <1>2
<1>4. ProgramTakes(m, metas, left)
  BY ONLY <1>3, ProgramTakes(m, metas, held), Zenon DEF ProgramTakes
<1> QED BY <1>4 DEF left

\* Every step keeps the invariant.
LEMMA StepIInv == IInv /\ [Next]_vars => IInv'
<1> SUFFICES ASSUME IInv, [Next]_vars PROVE IInv'
  OBVIOUS
<1>1. CASE UNCHANGED vars
  BY <1>1 DEF IInv, vars, TablesType, Stored, StoredIsCompiled, ByClientNeedsTheVault,
     ProgramTakesTheAccounts
<1>2. CASE ProposeTransfer
  <2>1. PICK to \in TransferTo, autoExecute \in BOOLEAN :
          ProposeInstructions(Transfer(Vault, to), autoExecute)
    BY <1>2 DEF ProposeTransfer
  <2> QED BY <2>1, TransferType, ProposeIInv
<1>3. CASE ProposeMessage
  <2>1. PICK instructions \in Instructions, feePayer \in FeePayer \cup {NoFeePayer},
             autoExecute \in BOOLEAN :
          /\ Proposable(Vault, instructions, feePayer)
          /\ ProposeInstructions(instructions, autoExecute)
    BY <1>3 DEF ProposeMessage
  <2>2. /\ instructions \in Seq(InstructionOver(Key))
        /\ \A meta \in Metas(instructions) : meta.role.signer => meta.address = Vault
    BY <2>1, InstructionsAssumption DEF Proposable
  <2> QED BY <2>1, <2>2, ProposeIInv
<1>4. CASE ForeignStore
  <2>1. PICK instructions \in Instructions, lookups \in LookupLists,
             ephemeral \in {{}, Ephemeral} :
          Store(instructions, FALSE, ephemeral, lookups)
    BY <1>4 DEF ForeignStore
  <2>2. ~Stored /\ accounts' = accounts
    BY <1>4 DEF ForeignStore
  <2>3. instructions \in Seq(InstructionOver(Key)) /\ lookups \in Seq(Lookup)
    BY InstructionsAssumption, LookupAssumption
  <2> DEFINE m == Compiled(Vault, instructions, ephemeral, lookups)
  <2>4. proposed' = instructions /\ byClient' = FALSE /\ message' = m /\ tables' = tables
    BY <2>1 DEF Store
  <2>5. m # NoMessage /\ m.lookups = lookups /\ m.ephemeral = ephemeral
    BY <2>3, CompiledType
  <2>6. StoredIsCompiled'
    <3>1. m = Compiled(Vault, instructions, m.ephemeral, m.lookups)
      BY <2>5
    <3> HIDE DEF m
    <3> QED BY <2>3, <2>4, <2>5, <3>1 DEF StoredIsCompiled
  <2>7. Stored'
    <3> HIDE DEF m
    <3> QED BY <2>4, <2>5 DEF Stored
  <2>8. accounts' = <<>>
    BY <2>2 DEF IInv
  <2>9. TablesType' /\ accounts' \in Seq(AccountMeta) /\ ProgramTakesTheAccounts'
    BY <2>4, <2>2, <2>8 DEF IInv, TablesType, ProgramTakesTheAccounts
  <2>10. ByClientNeedsTheVault'
    BY <2>4 DEF ByClientNeedsTheVault
  <2>11. byClient' \in BOOLEAN /\ proposed' \in Seq(InstructionOver(Key))
    BY <2>3, <2>4
  <2> QED BY <2>6, <2>7, <2>9, <2>10, <2>11 DEF IInv
<1>5. CASE Execute
  <2>1. /\ Stored /\ TablesResolve(message) /\ accounts' = Resolved(message)
        /\ UNCHANGED <<proposed, byClient, message, tables>>
    BY <1>5 DEF Execute
  <2>2. MessageType(message) /\ TablesType
    <3> DEFINE ephemeral == message.ephemeral
               lookups == message.lookups
    <3>1. lookups \in Seq(Lookup) /\ message = Compiled(Vault, proposed, ephemeral, lookups)
      BY <2>1 DEF IInv, StoredIsCompiled
    <3>2. proposed \in Seq(InstructionOver(Key)) /\ TablesType
      BY DEF IInv
    <3> HIDE DEF ephemeral, lookups
    <3>3. MessageType(Compiled(Vault, proposed, ephemeral, lookups))
      BY ONLY <3>1, <3>2, CompiledType
    <3> QED BY <3>1, <3>2, <3>3
  <2>3. ProgramTakes(message, Resolved(message), tables)
        /\ Resolved(message) \in Seq(AccountMeta)
    BY <2>1, <2>2, ResolvedTakes
  <2>4. ProgramTakes(message', accounts', tables') /\ accounts' \in Seq(AccountMeta)
    BY <2>1, <2>3
  <2> QED BY <2>1, <2>4 DEF IInv, TablesType, Stored, StoredIsCompiled,
             ByClientNeedsTheVault, ProgramTakesTheAccounts
<1>6. CASE CloseTable
  <2>1. PICK table \in DOMAIN tables : tables' = [t \in DOMAIN tables \ {table} |-> tables[t]]
    BY <1>6 DEF CloseTable
  <2>2. UNCHANGED <<proposed, byClient, message, accounts>>
    BY <1>6 DEF CloseTable
  <2>3. TablesType'
    BY <2>1 DEF IInv, TablesType
  <2>4. ProgramTakesTheAccounts'
    <3> SUFFICES ASSUME accounts # <<>> PROVE ProgramTakes(message, accounts, tables')
      BY <2>2 DEF ProgramTakesTheAccounts
    <3>1. ProgramTakes(message, accounts, tables)
      BY DEF IInv, ProgramTakesTheAccounts
    <3> QED BY <2>1, <3>1, TakesWithoutTable
  <2> QED BY <2>2, <2>3, <2>4 DEF IInv, Stored, StoredIsCompiled, ByClientNeedsTheVault
<1> QED BY <1>1, <1>2, <1>3, <1>4, <1>5, <1>6 DEF Next

\* The invariant holds in every reachable state.
LEMMA Inductive == Spec => []IInv
<1> QED BY InitIInv, StepIInv, PTL DEF Spec

(***************************************************************************)
(* The theorems.                                                           *)
(***************************************************************************)

\* What is stored: a message compiled from the instructions proposed.
LEMMA WhatIsStored ==
  ASSUME IInv, Stored
  PROVE  \E ephemeral, lookups :
           /\ lookups \in Seq(Lookup)
           /\ message = Compiled(Vault, proposed, ephemeral, lookups)
           /\ proposed \in Seq(InstructionOver(Key)) /\ Vault \in Key
<1> QED BY KeyAssumption DEF IInv, StoredIsCompiled

\* A stored message gives every key exactly the privileges the instructions ask for
\* it, in whatever order they ask: compile groups the keys by their merged roles.
THEOREM PrivilegesAsked == Spec => []NoUndueRole
<1>1. ASSUME IInv, Stored,
             NEW i \in DOMAIN message.accountKeys
      PROVE  HeaderRole(message, i) = RoleOf(Vault, proposed, message.accountKeys[i])
  <2>1. PICK ephemeral, lookups :
          /\ message = Compiled(Vault, proposed, ephemeral, lookups)
          /\ proposed \in Seq(InstructionOver(Key)) /\ Vault \in Key
    BY <1>1, WhatIsStored
  <2>2. /\ message.accountKeys \in Seq(Key)
        /\ \A k \in 1 .. Len(message.accountKeys) :
             HeaderRole(message, k) = RoleOf(Vault, proposed, message.accountKeys[k])
    <3> DEFINE m == Compiled(Vault, proposed, ephemeral, lookups)
    <3>1. m.accountKeys \in Seq(Key)
      BY ONLY <2>1, CompiledKeys
    <3>2. \A k \in 1 .. Len(m.accountKeys) :
            HeaderRole(m, k) = RoleOf(Vault, proposed, m.accountKeys[k])
      BY ONLY <2>1, CompiledRoles
    <3> QED BY <2>1, <3>1, <3>2
  <2>3. i \in 1 .. Len(message.accountKeys)
    BY <2>2, Elements
  <2> QED BY <2>2, <2>3
<1>2. IInv => NoUndueRole
  BY <1>1 DEF NoUndueRole
<1> QED BY Inductive, <1>2, PTL

\* Whoever stored the message, and whether it is run at once or read back later, an
\* execution passes the accounts the program wants, in its order, for every message
\* and every lookup table, tables closed since included.
THEOREM ExecutionsPassTheAccounts == Spec => []ProgramTakesTheAccounts
<1>1. IInv => ProgramTakesTheAccounts
  BY DEF IInv
<1> QED BY Inductive, <1>1, PTL

\* A stored message names, instruction for instruction and account for account, what
\* was proposed, and grants each account at least what is asked: by position, though
\* the keys were regrouped.
THEOREM MessagesMeanWhatIsProposed == Spec => []MessageMeansItsInstructions
<1>1. ASSUME IInv, Stored
      PROVE  /\ message.accountKeys[1] = Vault
             /\ Len(message.instructions) = Len(proposed)
             /\ \A i \in DOMAIN proposed :
                  LET ix == message.instructions[i]
                      asked == proposed[i].accounts
                  IN  /\ message.accountKeys[ix.programIdIndex] = proposed[i].program
                      /\ Len(ix.accountIndexes) = Len(asked)
                      /\ \A j \in DOMAIN asked :
                           /\ message.accountKeys[ix.accountIndexes[j]] = asked[j].address
                           /\ Grants(HeaderRole(message, ix.accountIndexes[j]), asked[j].role)
  <2>1. PICK ephemeral, lookups :
          /\ message = Compiled(Vault, proposed, ephemeral, lookups)
          /\ proposed \in Seq(InstructionOver(Key)) /\ Vault \in Key
    BY <1>1, WhatIsStored
  <2> DEFINE m == Compiled(Vault, proposed, ephemeral, lookups)
  <2>2. m.accountKeys[1] = Vault
    BY ONLY <2>1, CompiledKeys
  <2>3. /\ Len(m.instructions) = Len(proposed)
        /\ \A i \in 1 .. Len(proposed) :
             LET ix == m.instructions[i] IN
             /\ ix.programIdIndex \in 1 .. Len(m.accountKeys)
             /\ m.accountKeys[ix.programIdIndex] = proposed[i].program
             /\ Len(ix.accountIndexes) = Len(proposed[i].accounts)
             /\ \A j \in 1 .. Len(proposed[i].accounts) :
                  /\ ix.accountIndexes[j] \in 1 .. Len(m.accountKeys)
                  /\ m.accountKeys[ix.accountIndexes[j]] = proposed[i].accounts[j].address
    <3>1. proposed \in Seq(InstructionOver(Key)) /\ Vault \in Key
      BY <2>1
    <3> QED BY ONLY <3>1, CompiledInstructions, SMTT(60)
  <2>4. \A k \in 1 .. Len(m.accountKeys) :
          HeaderRole(m, k) = RoleOf(Vault, proposed, m.accountKeys[k])
    BY ONLY <2>1, CompiledRoles
  <2>5. message = m
    BY <2>1
  <2> HIDE DEF m
  <2>6. /\ DOMAIN proposed = 1 .. Len(proposed)
        /\ \A i \in 1 .. Len(proposed) :
             DOMAIN proposed[i].accounts = 1 .. Len(proposed[i].accounts)
    BY ONLY <2>1, InstructionTypes
  <2>7. \A i \in 1 .. Len(proposed) : \A j \in 1 .. Len(proposed[i].accounts) :
          proposed[i].accounts[j] \in Metas(proposed)
    BY ONLY <2>1, MetasAt
  <2>8. ASSUME NEW i \in 1 .. Len(proposed), NEW j \in 1 .. Len(proposed[i].accounts)
        PROVE  Grants(HeaderRole(m, m.instructions[i].accountIndexes[j]),
                      proposed[i].accounts[j].role)
    <3> DEFINE meta == proposed[i].accounts[j]
               at == m.instructions[i].accountIndexes[j]
    <3>1. at \in 1 .. Len(m.accountKeys) /\ m.accountKeys[at] = meta.address
      BY ONLY <2>3
    <3>2. HeaderRole(m, at) = RoleOf(Vault, proposed, meta.address)
      BY ONLY <2>4, <3>1
    <3>3. meta \in Metas(proposed)
      BY ONLY <2>7
    <3> HIDE DEF meta, at
    <3>4. Grants(RoleOf(Vault, proposed, meta.address), meta.role)
      BY <3>3 DEF Grants, RoleOf
    <3> QED BY <3>2, <3>4 DEF meta, at
  <2> QED BY ONLY <2>2, <2>3, <2>5, <2>6, <2>8
<1>2. IInv => MessageMeansItsInstructions
  BY <1>1 DEF MessageMeansItsInstructions
<1> QED BY Inductive, <1>2, PTL

\* A message propose accepts needs the vault's signature and nobody else's, and no
\* execution of it asks the executing member for one: only such messages are stored.
THEOREM NobodyElseSigns == Spec => []OnlyTheVaultSigns
<1>1. ASSUME IInv, Stored, byClient
      PROVE  message.numSigners = 1 /\ \A meta \in ToSet(accounts) : ~meta.role.signer
  <2>1. PICK ephemeral, lookups :
          /\ message = Compiled(Vault, proposed, ephemeral, lookups)
          /\ proposed \in Seq(InstructionOver(Key)) /\ Vault \in Key
    BY <1>1, WhatIsStored
  <2>2. /\ message.lookups = <<>> /\ message.ephemeral = {}
        /\ \A meta \in Metas(proposed) : meta.role.signer => meta.address = Vault
    BY <1>1 DEF IInv, ByClientNeedsTheVault
  <2>3. message.numSigners = 1
    BY <2>1, <2>2, OneSigner
  <2>4. message.accountKeys \in Seq(Key) /\ message.accountKeys[1] = Vault
    <3>1. LET m == Compiled(Vault, proposed, ephemeral, lookups)
          IN  m.accountKeys \in Seq(Key) /\ m.accountKeys[1] = Vault
      BY ONLY <2>1, CompiledKeys
    <3> QED BY <2>1, <3>1
  <2>5. ASSUME NEW meta \in ToSet(accounts), meta.role.signer PROVE FALSE
    <3>1. PICK i \in 1 .. Len(accounts) : meta = accounts[i]
      <4>1. accounts \in Seq(AccountMeta)
        BY <1>1 DEF IInv
      <4>2. ToSet(accounts) = {accounts[k] : k \in 1 .. Len(accounts)}
        BY ONLY <4>1, Elements
      <4> QED BY ONLY <2>5, <4>2
    <3>2. accounts # <<>>
      BY <2>5 DEF ToSet
    <3>3. ProgramTakes(message, accounts, tables)
      BY <1>1, <3>2 DEF IInv, ProgramTakesTheAccounts
    <3> DEFINE N == Len(message.accountKeys)
               sizes == [k \in 1 .. (Len(message.lookups) + 1) - 1 |->
                           Len(message.lookups[k].writable) + Len(message.lookups[k].readonly)]
    <3>4. N \in Nat /\ DOMAIN message.accountKeys = 1 .. N
      BY <2>4, Elements
    <3>5. Total(sizes) = 0 /\ Len(message.lookups) = 0
      <4>1. Len(message.lookups) = 0
        BY <2>2
      <4>2. sizes = <<>>
        BY <4>1
      <4> HIDE DEF sizes
      <4> DEFINE g == [n \in {0} |-> 0]
      <4>3. sizes \in Seq(Nat) /\ Len(sizes) = 0 /\ g[0] = 0
        BY <4>2, EmptySeq
      <4> HIDE DEF g
      <4>4. Total(sizes) = g[Len(sizes)]
        <5>1. \A n \in 1 .. Len(sizes) : g[n] = g[n - 1] + sizes[n]
          BY <4>3
        <5> QED BY <4>3, <5>1, TotalIs
      <4> QED BY <4>1, <4>3, <4>4
    <3>6. Len(accounts) = Len(message.lookups) + N + Total(sizes)
      BY ONLY <3>3 DEF ProgramTakes
    <3> HIDE DEF sizes
    <3>7. i \in 1 .. N /\ Len(message.lookups) + i = i
      <4>1. Len(accounts) = N
        <5> HIDE DEF N
        <5> QED BY ONLY <3>4, <3>5, <3>6
      <4>2. i \in 1 .. N
        BY <4>1
      <4> HIDE DEF N
      <4> QED BY ONLY <3>4, <3>5, <4>2
    <3>8. HeaderRole(message, i).signer /\ message.accountKeys[i] \notin SignedForByProgram(message)
      <4>1. \A k \in DOMAIN message.accountKeys :
              accounts[Len(message.lookups) + k].role.signer
                <=> /\ HeaderRole(message, k).signer
                    /\ message.accountKeys[k] \notin SignedForByProgram(message)
        BY ONLY <3>3 DEF ProgramTakes
      <4>2. i \in DOMAIN message.accountKeys
        BY ONLY <3>4, <3>7
      <4>3. accounts[Len(message.lookups) + i].role.signer
        BY ONLY <2>5, <3>1, <3>7
      <4> QED BY ONLY <4>1, <4>2, <4>3
    <3>9. i = 1
      <4>1. i <= 1
        BY ONLY <2>3, <3>8 DEF HeaderRole
      <4>2. i \in Nat /\ i >= 1
        <5> HIDE DEF N
        <5> QED BY ONLY <3>4, <3>7
      <4> QED BY ONLY <4>1, <4>2
    <3> QED BY <2>4, <3>8, <3>9 DEF SignedForByProgram
  <2> QED BY <2>3, <2>5
<1>2. IInv => OnlyTheVaultSigns
  BY <1>1 DEF OnlyTheVaultSigns
<1> QED BY Inductive, <1>2, PTL

\* Every stored message lists each key once, with a header that stays within the list,
\* and every account of an execution has an address and a role.
THEOREM TypeCorrect == Spec => []TypeOK
<1>1. ASSUME IInv, Stored
      PROVE  /\ ToSet(message.accountKeys) \subseteq Key
             /\ IsInjective(message.accountKeys)
             /\ message.numWritableSigners \in 1 .. message.numSigners
             /\ message.numSigners + message.numWritableNonSigners
                  \in 1 .. Len(message.accountKeys)
  <2>1. PICK ephemeral, lookups :
          /\ message = Compiled(Vault, proposed, ephemeral, lookups)
          /\ proposed \in Seq(InstructionOver(Key)) /\ Vault \in Key
    BY <1>1, WhatIsStored
  <2>2. /\ message.accountKeys \in Seq(Key) /\ Once(message.accountKeys)
        /\ message.numSigners \in Nat
        /\ message.numWritableSigners \in 1 .. message.numSigners
        /\ message.numWritableNonSigners \in Nat
        /\ message.numSigners + message.numWritableNonSigners <= Len(message.accountKeys)
    <3> DEFINE m == Compiled(Vault, proposed, ephemeral, lookups)
    <3>1. /\ m.accountKeys \in Seq(Key) /\ Once(m.accountKeys)
          /\ m.numSigners \in Nat /\ m.numWritableSigners \in 1 .. m.numSigners
          /\ m.numWritableNonSigners \in Nat
          /\ m.numSigners + m.numWritableNonSigners <= Len(m.accountKeys)
      BY ONLY <2>1, CompiledKeys
    <3> QED BY <2>1, <3>1
  <2>3. ToSet(message.accountKeys) \subseteq Key /\ Len(message.accountKeys) \in Nat
        /\ DOMAIN message.accountKeys = 1 .. Len(message.accountKeys)
    BY <2>2, Elements
  <2>4. IsInjective(message.accountKeys)
    BY <2>2, <2>3 DEF IsInjective, Once
  <2>5. message.numSigners + message.numWritableNonSigners \in 1 .. Len(message.accountKeys)
    <3> DEFINE s == message.numSigners
               n == message.numWritableNonSigners
               N == Len(message.accountKeys)
    <3>1. s \in Nat /\ n \in Nat /\ N \in Nat /\ s + n <= N /\ 1 <= s
      BY <2>2, <2>3
    <3> HIDE DEF s, n, N
    <3>2. s + n \in 1 .. N
      BY ONLY <3>1
    <3> QED BY <3>2 DEF s, n, N
  <2> QED BY <2>2, <2>3, <2>4, <2>5
<1>2. ASSUME IInv, NEW meta \in ToSet(accounts)
      PROVE  meta.address \in Key /\ meta.role \in Role
  <2>1. ToSet(accounts) \subseteq AccountMeta
    BY <1>2, Elements DEF IInv
  <2> QED BY <2>1 DEF AccountMeta
<1>3. IInv => TypeOK
  BY <1>1, <1>2 DEF TypeOK, IInv
<1> QED BY Inductive, <1>3, PTL
=============================================================================
