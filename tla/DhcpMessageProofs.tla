-------------------------- MODULE DhcpMessageProofs ---------------------------
(***************************************************************************)
(* What the parser of DhcpMessage.cpp reads is what was sent, and what the *)
(* server answers is what the client reads: for every message of any       *)
(* number of entries, every address and either order of bytes.             *)
(*                                                                         *)
(* The invariant relates the position of the parser to the entry that lies *)
(* there, and the options it has to the entries before.  Everything else   *)
(* says where things lie in a datagram.                                    *)
(***************************************************************************)
EXTENDS DhcpMessage, SequenceTheorems, WellFoundedInduction, TLAPS

-----------------------------------------------------------------------------
(* Sequences of sequences *)

(* Induction over the numbers from a to n, for a set. *)
LEMMA UpTo ==
  ASSUME NEW a \in Nat, NEW n \in Nat, NEW G,
         a \in G, \A i \in a .. n - 1 : i \in G => i + 1 \in G
  PROVE  \A i \in a .. n : i \in G
<1> DEFINE Bad == { i \in a .. n : i \notin G }
           R == { ss \in Nat \X Nat : ss[1] < ss[2] }
<1>1. IsWellFoundedOn(R, Nat)
  BY NatLessThanWellFounded DEF OpToRel
<1>2. \A x, y \in Nat : <<x, y>> \in R <=> x < y
  OBVIOUS
<1> HIDE DEF R
<1>3. SUFFICES ASSUME Bad # {} PROVE FALSE
  OBVIOUS
<1>4. Bad \subseteq Nat
  OBVIOUS
<1>5. PICK m \in Bad : \A y \in Bad : <<y, m>> \notin R
  BY <1>1, <1>3, <1>4, WFMin
<1>6. m \in a .. n /\ m \notin G
  BY <1>5
<1>7. \A y \in a .. n : y \notin G => ~(y < m)
  BY <1>2, <1>4, <1>5
<1>8. m # a
  BY <1>6
<1>9. m - 1 \in a .. n - 1 /\ m - 1 < m /\ m - 1 + 1 = m
  BY <1>6, <1>8
<1>10. m - 1 \in G
  BY <1>7, <1>9
<1>11. QED
  BY <1>6, <1>9, <1>10

(* What FlattenSeq computes, step by step. *)
LEMMA FlattenFunction ==
  ASSUME NEW S, NEW s \in Seq(Seq(S)), s # <<>>
  PROVE  \E f \in [1 .. Len(s) -> Seq(S)] :
           /\ f[1] = s[1]
           /\ \A i \in 1 .. Len(s) - 1 : f[i + 1] = f[i] \o s[i + 1]
           /\ FlattenSeq(s) = f[Len(s)]
<1>1. Len(s) \in Nat \ {0} /\ DOMAIN s = 1 .. Len(s) /\ \A i \in 1 .. Len(s) : s[i] \in Seq(S)
  BY EmptySeq, LenProperties
<1>2. PICK n : n = Len(s)
  OBVIOUS
<1>3. n \in Nat \ {0} /\ \A i \in 1 .. n : s[i] \in Seq(S)
  BY <1>1, <1>2
<1> DEFINE Rec(f, m) == f = [i \in 1 .. m |-> IF i = 1 THEN s[i] ELSE f[i - 1] \o s[i]]
           G == { m \in Nat : \E f : Rec(f, m) }
<1>4. 1 \in G
  <2>1. PICK f : f = [i \in 1 .. 1 |-> s[i]]
    OBVIOUS
  <2>2. f = [i \in 1 .. 1 |-> IF i = 1 THEN s[i] ELSE f[i - 1] \o s[i]]
    BY <2>1
  <2>3. QED
    BY <2>2
<1>5. ASSUME NEW m \in 1 .. n - 1, m \in G PROVE m + 1 \in G
  <2>1. PICK f : Rec(f, m)
    BY <1>5
  <2>2. PICK g : g = [i \in 1 .. m + 1 |-> IF i = m + 1 THEN f[m] \o s[m + 1] ELSE f[i]]
    OBVIOUS
  <2>3. m \in Nat \ {0}
    BY <1>3
  <2>4. ASSUME NEW i \in 1 .. m + 1
        PROVE  g[i] = IF i = 1 THEN s[i] ELSE g[i - 1] \o s[i]
    <3>1. CASE i = m + 1
      <4>1. m \in 1 .. m + 1 /\ m # m + 1 /\ i # 1 /\ i - 1 = m
        BY <2>3, <3>1
      <4>2. g[m] = f[m] /\ g[i] = f[m] \o s[m + 1]
        BY <2>2, <4>1, <3>1
      <4>3. QED
        BY <4>1, <4>2, <3>1
    <3>2. CASE i # m + 1
      <4>1. i \in 1 .. m /\ (i # 1 => i - 1 \in 1 .. m + 1 /\ i - 1 # m + 1)
        BY <2>3, <3>2
      <4>2. f[i] = IF i = 1 THEN s[i] ELSE f[i - 1] \o s[i]
        BY <2>1, <4>1
      <4>3. g[i] = f[i] /\ (i # 1 => g[i - 1] = f[i - 1])
        BY <2>2, <4>1, <3>2
      <4>4. QED
        BY <4>2, <4>3
    <3>3. QED
      BY <3>1, <3>2
  <2>5. g = [i \in 1 .. m + 1 |-> g[i]]
    BY <2>2
  <2>6. g = [i \in 1 .. m + 1 |-> IF i = 1 THEN s[i] ELSE g[i - 1] \o s[i]]
    BY <2>4, <2>5
  <2>7. m + 1 \in Nat
    BY <2>3
  <2>8. QED
    BY <2>6, <2>7
<1>6. n \in G
  <2> HIDE DEF G
  <2>1. \A i \in 1 .. n : i \in G
    BY <1>3, <1>4, <1>5, UpTo
  <2>2. QED
    BY <1>3, <2>1
<1>7. FlattenSeq(s) = (CHOOSE f : Rec(f, n))[n]
  BY <1>1, <1>2, Zenon DEF FlattenSeq
<1>8. PICK f : f = CHOOSE g : Rec(g, n)
  OBVIOUS
<1>9. Rec(f, n)
  <2>1. \E g : Rec(g, n)
    BY <1>6
  <2>2. QED
    BY <2>1, <1>8, Zenon
<1>10. /\ DOMAIN f = 1 .. n
       /\ \A i \in 1 .. n : f[i] = IF i = 1 THEN s[i] ELSE f[i - 1] \o s[i]
       /\ f = [i \in 1 .. n |-> f[i]]
  <2>1. DOMAIN f = 1 .. n
    BY <1>9
  <2>2. \A i \in 1 .. n : f[i] = IF i = 1 THEN s[i] ELSE f[i - 1] \o s[i]
    BY <1>9
  <2>3. PICK h : h = [i \in 1 .. n |-> IF i = 1 THEN s[i] ELSE f[i - 1] \o s[i]]
    OBVIOUS
  <2>4. h = f /\ h = [i \in 1 .. n |-> h[i]]
    BY <1>9, <2>3
  <2>5. QED
    BY <2>1, <2>2, <2>4
<1> HIDE DEF Rec, G
<1>11. f[1] = s[1] /\ \A i \in 1 .. n - 1 : f[i + 1] = f[i] \o s[i + 1]
  <2>1. 1 \in 1 .. n
    BY <1>3
  <2>2. ASSUME NEW i \in 1 .. n - 1 PROVE f[i + 1] = f[i] \o s[i + 1]
    <3>1. i + 1 \in 1 .. n /\ i + 1 # 1 /\ i + 1 - 1 = i
      BY <1>3
    <3>2. PICK j : j = i + 1
      OBVIOUS
    <3>3. j \in 1 .. n /\ j # 1 /\ j - 1 = i
      BY <3>1, <3>2
    <3>4. f[j] = f[j - 1] \o s[j]
      <4>1. f[j] = IF j = 1 THEN s[j] ELSE f[j - 1] \o s[j]
        BY <3>3, <1>10
      <4>2. QED
        BY <3>3, <4>1
    <3>5. QED
      BY <3>2, <3>3, <3>4
  <2>3. QED
    BY <2>1, <2>2, <1>10
<1> DEFINE H == { m \in Nat : f[m] \in Seq(S) }
<1>12. 1 \in H
  BY <1>3, <1>11
<1>13. ASSUME NEW m \in 1 .. n - 1, m \in H PROVE m + 1 \in H
  <2>1. m + 1 \in 1 .. n /\ m + 1 \in Nat
    BY <1>3
  <2>2. f[m] \in Seq(S)
    BY <1>13
  <2>3. s[m + 1] \in Seq(S)
    BY <2>1, <1>3
  <2>4. f[m + 1] = f[m] \o s[m + 1]
    BY <2>1, <1>11
  <2>5. f[m + 1] \in Seq(S)
    BY <2>2, <2>3, <2>4, ConcatProperties
  <2>6. QED
    BY <2>1, <2>5
<1>14. \A i \in 1 .. n : f[i] \in Seq(S)
  <2> HIDE DEF H
  <2>1. \A i \in 1 .. n : i \in H
    BY <1>3, <1>12, <1>13, UpTo
  <2>2. QED
    BY <2>1 DEF H
<1>15. f \in [1 .. n -> Seq(S)]
  BY <1>10, <1>14
<1>16. FlattenSeq(s) = f[n]
  BY <1>7, <1>8
<1>17. QED
  BY <1>2, <1>11, <1>15, <1>16

(* Where the parts of a flattened sequence lie: the i-th starts after the  *)
(* start[i] elements of those before it.                                   *)
Layout(start, s, t) ==
  /\ start \in [1 .. Len(s) + 1 -> Nat]
  /\ start[1] = 0
  /\ \A i \in 1 .. Len(s) : start[i + 1] = start[i] + Len(s[i])
  /\ \A i \in 1 .. Len(s) + 1 : start[i] <= Len(t)
  /\ Len(t) = start[Len(s) + 1]
  /\ \A i \in 1 .. Len(s) : \A k \in 1 .. Len(s[i]) : t[start[i] + k] = s[i][k]

(* FlattenSeq puts the parts one after the other. *)
LEMMA FlattenLayout ==
  ASSUME NEW S, NEW s \in Seq(Seq(S))
  PROVE  /\ FlattenSeq(s) \in Seq(S)
         /\ \E start : Layout(start, s, FlattenSeq(s))
<1>1. CASE s = <<>>
  <2>1. Len(s) = 0 /\ FlattenSeq(s) = <<>>
    BY <1>1, EmptySeq DEF FlattenSeq
  <2>2. PICK start : start = [i \in 1 .. 1 |-> 0]
    OBVIOUS
  <2>3. start \in [1 .. 1 -> Nat] /\ start[1] = 0
    BY <2>2
  <2>4. Layout(start, s, <<>>)
    BY <2>1, <2>3 DEF Layout
  <2>5. QED
    BY <2>1, <2>4
<1>2. CASE s # <<>>
  <2>1. PICK f \in [1 .. Len(s) -> Seq(S)] :
           /\ f[1] = s[1]
           /\ \A i \in 1 .. Len(s) - 1 : f[i + 1] = f[i] \o s[i + 1]
           /\ FlattenSeq(s) = f[Len(s)]
    BY <1>2, FlattenFunction
  <2>2. PICK n : n = Len(s)
    OBVIOUS
  <2>3. n \in Nat \ {0} /\ \A i \in 1 .. n : s[i] \in Seq(S) /\ Len(s[i]) \in Nat
    BY <1>2, <2>2, EmptySeq, LenProperties
  <2>4. \A i \in 1 .. n : f[i] \in Seq(S) /\ Len(f[i]) \in Nat
    BY <2>1, <2>2, LenProperties
  <2>5. \A i \in 1 .. n - 1 :
          /\ Len(f[i + 1]) = Len(f[i]) + Len(s[i + 1])
          /\ \A k \in 1 .. Len(f[i]) : f[i + 1][k] = f[i][k]
          /\ \A k \in 1 .. Len(s[i + 1]) : f[i + 1][Len(f[i]) + k] = s[i + 1][k]
    <3> TAKE i \in 1 .. n - 1
    <3>1. i \in 1 .. n /\ i + 1 \in 1 .. n
      BY <2>3
    <3>2. f[i + 1] = f[i] \o s[i + 1]
      BY <2>1, <2>2, <3>1
    <3>3. f[i] \in Seq(S)
      BY <2>4, <3>1
    <3>4. s[i + 1] \in Seq(S)
      BY <2>3, <3>1
    <3>5. /\ Len(f[i] \o s[i + 1]) = Len(f[i]) + Len(s[i + 1])
          /\ \A k \in 1 .. Len(f[i]) + Len(s[i + 1]) :
               (f[i] \o s[i + 1])[k] = IF k <= Len(f[i]) THEN f[i][k] ELSE s[i + 1][k - Len(f[i])]
      BY <3>3, <3>4, ConcatProperties
    <3>6. Len(f[i]) \in Nat /\ Len(s[i + 1]) \in Nat
      BY <2>3, <2>4, <3>1
    <3>7. PICK a \in Nat, b \in Nat : a = Len(f[i]) /\ b = Len(s[i + 1])
      BY <3>6
    <3>8. /\ \A k \in 1 .. a : k \in 1 .. a + b /\ k <= a
          /\ \A k \in 1 .. b : a + k \in 1 .. a + b /\ ~(a + k <= a) /\ a + k - a = k
      OBVIOUS
    <3>9. PICK g, p, q : g = f[i + 1] /\ p = f[i] /\ q = s[i + 1]
      OBVIOUS
    <3>10. /\ Len(g) = a + b
           /\ \A k \in 1 .. a + b : g[k] = IF k <= a THEN p[k] ELSE q[k - a]
      BY <3>2, <3>5, <3>7, <3>9
    <3>11. \A k \in 1 .. a : g[k] = p[k]
      BY <3>8, <3>10
    <3>12. \A k \in 1 .. b : g[a + k] = q[k]
      BY <3>8, <3>10
    <3>13. QED
      BY <3>7, <3>9, <3>10, <3>11, <3>12
  <2>6. PICK start : start = [i \in 1 .. n + 1 |-> IF i = 1 THEN 0 ELSE Len(f[i - 1])]
    OBVIOUS
  <2>7. /\ start \in [1 .. n + 1 -> Nat]
        /\ start[1] = 0
        /\ \A i \in 1 .. n : start[i + 1] = Len(f[i])
    <3>1. \A i \in 1 .. n : i + 1 \in 1 .. n + 1 /\ i + 1 # 1 /\ i + 1 - 1 = i
      BY <2>3
    <3>2. \A i \in 1 .. n + 1 : i # 1 => i - 1 \in 1 .. n
      BY <2>3
    <3>3. 1 \in 1 .. n + 1
      BY <2>3
    <3>4. start[1] = 0 /\ \A i \in 1 .. n : start[i + 1] = Len(f[i])
      BY <2>6, <3>1, <3>3
    <3>5. \A i \in 1 .. n + 1 : (IF i = 1 THEN 0 ELSE Len(f[i - 1])) \in Nat
      BY <2>4, <3>2
    <3>6. QED
      BY <2>6, <3>4, <3>5
  <2>8. \A i \in 1 .. n : start[i + 1] = start[i] + Len(s[i])
    <3> TAKE i \in 1 .. n
    <3>1. CASE i = 1
      BY <2>1, <2>3, <2>7, <3>1
    <3>2. CASE i # 1
      <4>1. PICK j \in 1 .. n - 1 : i = j + 1
        <5>1. i - 1 \in 1 .. n - 1 /\ i = i - 1 + 1
          BY <2>3, <3>2
        <5>2. QED
          BY <5>1
      <4>2. j \in 1 .. n
        BY <2>3
      <4>3. QED
        BY <2>5, <2>7, <4>1, <4>2
    <3>3. QED
      BY <3>1, <3>2
  <2> DEFINE G == { m \in Nat :
                      /\ \A i \in 1 .. m + 1 : start[i] <= start[m + 1]
                      /\ \A i \in 1 .. m : \A k \in 1 .. Len(s[i]) :
                           f[m][start[i] + k] = s[i][k] }
  <2>9. 1 \in G
    <3>1. \A i \in 1 .. 2 : start[i] <= start[1 + 1]
      <4>1. start[2] \in Nat
        BY <2>3, <2>7
      <4>2. start[1] <= start[2] /\ start[2] <= start[2] /\ \A i \in 1 .. 2 : i = 1 \/ i = 2
        BY <2>7, <4>1
      <4>3. QED
        BY <4>2
    <3>2. \A i \in 1 .. 1 : \A k \in 1 .. Len(s[i]) : f[1][start[i] + k] = s[i][k]
      <4>1. \A k \in 1 .. Len(s[1]) : start[1] + k = k
        BY <2>7, <2>3
      <4>2. \A k \in 1 .. Len(s[1]) : f[1][start[1] + k] = s[1][k]
        BY <4>1, <2>1
      <4>3. QED
        BY <4>2
    <3>3. QED
      BY <3>1, <3>2
  <2>10. ASSUME NEW m \in 1 .. n - 1, m \in G PROVE m + 1 \in G
    <3>1. m \in 1 .. n /\ m + 1 \in 1 .. n /\ m + 1 \in Nat /\ m \in Nat /\ m + 2 \in 1 .. n + 1
      BY <2>3
    <3>2. /\ start[m + 1] = Len(f[m])
          /\ start[m + 2] = start[m + 1] + Len(s[m + 1])
      BY <2>7, <2>8, <3>1
    <3>3. start[m + 1] \in Nat /\ Len(s[m + 1]) \in Nat /\ start[m + 2] \in Nat
      BY <2>3, <2>7, <3>1
    <3>4. \A i \in 1 .. m + 2 : start[i] <= start[m + 2]
      <4> TAKE i \in 1 .. m + 2
      <4>1. i \in 1 .. n + 1 /\ (i \in 1 .. m + 1 \/ i = m + 2)
        BY <2>3, <3>1
      <4>2. start[i] \in Nat
        BY <4>1, <2>7
      <4>3. CASE i = m + 2
        BY <3>3, <4>3
      <4>4. CASE i \in 1 .. m + 1
        <5>1. start[i] <= start[m + 1]
          BY <2>10, <4>4
        <5>2. PICK x \in Nat, y \in Nat, z \in Nat :
                x = start[i] /\ y = start[m + 1] /\ z = Len(s[m + 1])
          BY <3>3, <4>2
        <5>3. x <= y /\ start[m + 2] = y + z
          BY <5>1, <5>2, <3>2
        <5>4. x <= y + z
          BY <5>3
        <5>5. QED
          BY <5>2, <5>3, <5>4
      <4>5. QED
        BY <4>1, <4>3, <4>4
    <3>5. \A i \in 1 .. m + 1 : \A k \in 1 .. Len(s[i]) : f[m + 1][start[i] + k] = s[i][k]
      <4> TAKE i \in 1 .. m + 1
      <4> TAKE k \in 1 .. Len(s[i])
      <4>1. i \in 1 .. n /\ (i \in 1 .. m \/ i = m + 1)
        BY <2>3, <3>1
      <4>2. CASE i = m + 1
        BY <2>5, <3>2, <4>2
      <4>3. CASE i \in 1 .. m
        <5>1. f[m][start[i] + k] = s[i][k]
          BY <2>10, <4>3
        <5>2. start[i + 1] = start[i] + Len(s[i])
          BY <2>8, <4>1
        <5>3. start[i + 1] <= start[m + 1]
          BY <2>10, <3>1, <4>3
        <5>4. start[i] \in Nat /\ Len(s[i]) \in Nat /\ start[i + 1] \in Nat
          BY <2>3, <2>7, <4>1
        <5>5. k \in 1 .. Len(s[i])
          OBVIOUS
        <5>6. start[i] + k \in 1 .. Len(f[m])
          <6>1. PICK x \in Nat, y \in Nat, z \in Nat :
                  x = start[i] /\ y = start[m + 1] /\ z = Len(s[i])
            BY <3>3, <5>4
          <6>2. x + z <= y /\ k \in 1 .. z
            BY <5>2, <5>3, <5>5, <6>1
          <6>3. x + k \in 1 .. y
            BY <6>2
          <6>4. QED
            BY <6>1, <6>3, <3>2
        <5>7. f[m + 1][start[i] + k] = f[m][start[i] + k]
          BY <2>5, <5>6
        <5>8. QED
          BY <5>1, <5>7
      <4>4. QED
        BY <4>1, <4>2, <4>3
    <3>6. m + 1 + 1 = m + 2
      BY <3>1
    <3>7. QED
      BY <3>1, <3>4, <3>5, <3>6
  <2>11. n \in G
    <3> HIDE DEF G
    <3>1. \A i \in 1 .. n : i \in G
      BY <2>3, <2>9, <2>10, UpTo
    <3>2. QED
      BY <3>1, <2>3
  <2>12. FlattenSeq(s) = f[n] /\ f[n] \in Seq(S) /\ start[n + 1] = Len(f[n])
    BY <2>1, <2>2, <2>3, <2>4, <2>7
  <2>13. Layout(start, s, f[n])
    BY <2>2, <2>7, <2>8, <2>11, <2>12 DEF Layout
  <2>14. QED
    BY <2>12, <2>13
<1>3. QED
  BY <1>1, <1>2

-----------------------------------------------------------------------------
(* The tables of DhcpOption.cpp *)

(* The types of options_descriptions. *)
Types == {"NONE", "SUBNET_MASK", "INT_32", "IP_ADDRESS", "STRING", "UINT_16", "FLAG",
          "IP_ADDRESS_WITH_SUBNET_MASK", "UINT_8", "UINT_32", "TWO_IP_ADDRESSES",
          "VENDOR_SPECIFIC_FIELD", "UINT_ENUM", "BYTE_ARRAY"}

(* They are its domain. *)
LEMMA TableDomain == DOMAIN options_descriptions = Types
BY DEF options_descriptions, Types

(* The type of each code, as one case distinction. *)
TypeOf(code) ==
  IF code \in {0, 255} THEN "NONE"
  ELSE IF code = 1 THEN "SUBNET_MASK"
  ELSE IF code = 2 THEN "INT_32"
  ELSE IF code \in {12, 14, 15, 17, 18, 40, 47, 56, 60, 64, 66, 67} THEN "STRING"
  ELSE IF code \in {13, 22, 25, 26, 57} THEN "UINT_16"
  ELSE IF code \in {19, 20, 27, 29, 30, 31, 34, 36, 39} THEN "FLAG"
  ELSE IF code = 21 THEN "IP_ADDRESS_WITH_SUBNET_MASK"
  ELSE IF code \in {23, 37} THEN "UINT_8"
  ELSE IF code \in {24, 35, 38, 51, 58, 59} THEN "UINT_32"
  ELSE IF code = 33 THEN "TWO_IP_ADDRESSES"
  ELSE IF code = 43 THEN "VENDOR_SPECIFIC_FIELD"
  ELSE IF code \in {46, 52, 53} THEN "UINT_ENUM"
  ELSE IF code \in {55, 61} THEN "BYTE_ARRAY"
  ELSE "IP_ADDRESS"

(* A code has one type: no two rows of the table share a code. *)
LEMMA OneType ==
  ASSUME NEW t \in Types, NEW code \in options_descriptions[t]
  PROVE  t = TypeOf(code)
<1>1. CASE t = "NONE"
  BY <1>1 DEF options_descriptions, TypeOf
<1>2. CASE t = "SUBNET_MASK"
  BY <1>2 DEF options_descriptions, TypeOf
<1>3. CASE t = "INT_32"
  BY <1>3 DEF options_descriptions, TypeOf
<1>4. CASE t = "IP_ADDRESS"
  BY <1>4 DEF options_descriptions, TypeOf
<1>5. CASE t = "STRING"
  BY <1>5 DEF options_descriptions, TypeOf
<1>6. CASE t = "UINT_16"
  BY <1>6 DEF options_descriptions, TypeOf
<1>7. CASE t = "FLAG"
  BY <1>7 DEF options_descriptions, TypeOf
<1>8. CASE t = "IP_ADDRESS_WITH_SUBNET_MASK"
  BY <1>8 DEF options_descriptions, TypeOf
<1>9. CASE t = "UINT_8"
  BY <1>9 DEF options_descriptions, TypeOf
<1>10. CASE t = "UINT_32"
  BY <1>10 DEF options_descriptions, TypeOf
<1>11. CASE t = "TWO_IP_ADDRESSES"
  BY <1>11 DEF options_descriptions, TypeOf
<1>12. CASE t = "VENDOR_SPECIFIC_FIELD"
  BY <1>12 DEF options_descriptions, TypeOf
<1>13. CASE t = "UINT_ENUM"
  BY <1>13 DEF options_descriptions, TypeOf
<1>14. CASE t = "BYTE_ARRAY"
  BY <1>14 DEF options_descriptions, TypeOf
<1>15. QED
  BY <1>1, <1>2, <1>3, <1>4, <1>5, <1>6, <1>7, <1>8, <1>9, <1>10, <1>11, <1>12,
     <1>13, <1>14 DEF Types

(* What the table says of a code is what the case distinction says. *)
LEMMA KnownType ==
  ASSUME NEW code \in Known
  PROVE  /\ PayloadType(code) \in Types
         /\ code \in options_descriptions[PayloadType(code)]
         /\ PayloadType(code) = TypeOf(code)
<1>1. PICK t \in DOMAIN options_descriptions : code \in options_descriptions[t]
  BY DEF Known
<1>2. /\ PayloadType(code) \in DOMAIN options_descriptions
      /\ code \in options_descriptions[PayloadType(code)]
  BY <1>1, Zenon DEF PayloadType
<1>3. QED
  BY <1>2, TableDomain, OneType

(* The codes the table knows. *)
LEMMA KnownCodes ==
  ASSUME NEW code
  PROVE  code \in Known <=>
           code \in (0 .. 61) \cup (64 .. 76) \cup {255}
<1>1. ASSUME code \in Known PROVE code \in (0 .. 61) \cup (64 .. 76) \cup {255}
  <2>1. PICK t \in Types : code \in options_descriptions[t]
    BY <1>1, TableDomain DEF Known
  <2>2. QED
    BY <2>1 DEF Types, options_descriptions
<1>2. ASSUME code \in (0 .. 61) \cup (64 .. 76) \cup {255} PROVE code \in Known
  <2>1. code \in options_descriptions[TypeOf(code)] /\ TypeOf(code) \in Types
    BY <1>2 DEF options_descriptions, TypeOf, Types
  <2>2. QED
    BY <2>1, TableDomain DEF Known
<1>3. QED
  BY <1>1, <1>2

(* The sizes of an element, in bytes. *)
Sizes == {1, 2, 4, 8}

(* The size of an element of an option. *)
Size(code) == get_one_element_payload_length_in_bytes(PayloadType(code))

(* What the tables say of each other: lists have elements of several       *)
(* bytes and no constraint, and only options of one number have a          *)
(* constraint.                                                             *)
LEMMA CodeFacts ==
  ASSUME NEW code \in Known
  PROVE  /\ PayloadType(code) = "NONE" <=> code \in {0, 255}
         /\ code \in ListCodes =>
              /\ Size(code) \in Sizes \ {1}
              /\ PayloadType(code) \notin Whole
              /\ PayloadType(code) \notin {"FLAG", "NONE"}
              /\ code \notin DOMAIN int_constraint
         /\ PayloadType(code) \in Whole =>
              code \notin DOMAIN int_constraint /\ code \notin ListCodes
         /\ PayloadType(code) = "FLAG" => code \notin DOMAIN int_constraint
         /\ code \notin {0, 255} /\ PayloadType(code) \notin Whole => Size(code) \in Sizes
         /\ PayloadType(code) = "FLAG" => Size(code) = 1
         /\ PayloadType(code) = "BYTE_ARRAY" => min_len_in_elements(code) \in {1, 2}
         /\ min_len_in_elements(code) \in {0, 1, 2}
<1>1. PayloadType(code) = TypeOf(code)
  BY KnownType
<1>2. code \in (0 .. 61) \cup (64 .. 76) \cup {255}
  BY KnownCodes
<1>3. TypeOf(code) = "NONE" <=> code \in {0, 255}
  BY <1>2 DEF TypeOf
<1>4. TypeOf(code) \in Types
  BY <1>1, KnownType
<1>5. /\ code \in ListCodes =>
           /\ TypeOf(code) \in {"UINT_16", "IP_ADDRESS", "TWO_IP_ADDRESSES",
                                "IP_ADDRESS_WITH_SUBNET_MASK"}
           /\ code \notin {22, 23, 26, 37, 46, 52, 53, 57}
      /\ TypeOf(code) \in Whole =>
           code \notin {22, 23, 26, 37, 46, 52, 53, 57} /\ code \notin ListCodes
      /\ TypeOf(code) = "FLAG" => code \notin {22, 23, 26, 37, 46, 52, 53, 57}
  BY <1>2 DEF TypeOf, ListCodes, Whole
<1>6. DOMAIN int_constraint = {22, 23, 26, 37, 46, 52, 53, 57}
  BY DEF int_constraint
<1>7. /\ TypeOf(code) \notin Whole \cup {"NONE"} => Size(code) \in Sizes
      /\ TypeOf(code) \in {"UINT_16", "IP_ADDRESS", "TWO_IP_ADDRESSES",
                           "IP_ADDRESS_WITH_SUBNET_MASK"} => Size(code) \in Sizes \ {1}
      /\ TypeOf(code) = "FLAG" => Size(code) = 1
  BY <1>1, <1>4 DEF Size, Sizes, Types, Whole, get_one_element_payload_length_in_bytes
<1>8. min_len_in_elements(code) \in {0, 1, 2}
  BY DEF min_len_in_elements
<1>9. TypeOf(code) = "BYTE_ARRAY" => min_len_in_elements(code) \in {1, 2}
  BY DEF min_len_in_elements, TypeOf
<1>10. {"UINT_16", "IP_ADDRESS", "TWO_IP_ADDRESSES", "IP_ADDRESS_WITH_SUBNET_MASK"}
         \cap (Whole \cup {"NONE", "FLAG"}) = {}
  BY DEF Whole
<1>11. QED
  BY <1>1, <1>3, <1>5, <1>6, <1>7, <1>8, <1>9, <1>10

(* The number of bytes before the i-th element, when each has c bytes. *)
Before(i, c) == (i - 1) * c

(* The elements of a payload follow each other, and cover it. *)
LEMMA Elements ==
  ASSUME NEW c \in Sizes
  PROVE  /\ Before(1, c) = 0
         /\ \A i \in Nat \ {0} :
              /\ Before(i, c) \in Nat
              /\ i * c = Before(i, c) + c
              /\ Before(i + 1, c) = Before(i, c) + c
         /\ \A q \in Nat :
              /\ Before(q + 1, c) \in Nat
              /\ Before(q + 1, c) \div c = q
              /\ \A i \in 1 .. q : Before(i, c) + c <= Before(q + 1, c)
              /\ \A p \in 1 .. Before(q + 1, c) :
                   \E i \in 1 .. q : \E k \in 1 .. c : p = Before(i, c) + k
         /\ \A n \in Nat : n \div c \in Nat /\ (n % c = 0 => Before(n \div c + 1, c) = n)
<1>1. \A q \in Nat : \A p \in 1 .. Before(q + 1, c) :
              \E i \in 1 .. q : \E k \in 1 .. c : p = Before(i, c) + k
  <2> TAKE q \in Nat
  <2> TAKE p \in 1 .. Before(q + 1, c)
  <2>1. PICK i : i = (p - 1) \div c + 1
    OBVIOUS
  <2>2. PICK k : k = ((p - 1) % c) + 1
    OBVIOUS
  <2>3. i \in 1 .. q /\ k \in 1 .. c /\ p = (i - 1) * c + k
    <3>1. CASE c = 1
      BY <2>1, <2>2, <3>1 DEF Before, Sizes
    <3>2. CASE c = 2
      BY <2>1, <2>2, <3>2 DEF Before
    <3>3. CASE c = 4
      BY <2>1, <2>2, <3>3 DEF Before
    <3>4. CASE c = 8
      BY <2>1, <2>2, <3>4 DEF Before
    <3>5. QED
      BY <3>1, <3>2, <3>3, <3>4 DEF Sizes
  <2>4. p = Before(i, c) + k
    BY <2>3 DEF Before
  <2>5. QED
    BY <2>3, <2>4
<1>2. /\ Before(1, c) = 0
      /\ \A i \in Nat \ {0} :
              /\ Before(i, c) \in Nat
              /\ i * c = Before(i, c) + c
              /\ Before(i + 1, c) = Before(i, c) + c
      /\ \A q \in Nat :
              /\ Before(q + 1, c) \in Nat
              /\ Before(q + 1, c) \div c = q
              /\ \A i \in 1 .. q : Before(i, c) + c <= Before(q + 1, c)
      /\ \A n \in Nat : n \div c \in Nat /\ (n % c = 0 => Before(n \div c + 1, c) = n)
  <2>1. CASE c = 1
    BY <2>1 DEF Before
  <2>2. CASE c = 2
    BY <2>2 DEF Before
  <2>3. CASE c = 4
    BY <2>3 DEF Before
  <2>4. CASE c = 8
    BY <2>4 DEF Before
  <2>5. QED
    BY <2>1, <2>2, <2>3, <2>4 DEF Sizes
<1>3. QED
  BY <1>1, <1>2

(* An element lies inside its payload. *)
LEMMA ElementStart ==
  ASSUME NEW c \in Sizes, NEW q \in Nat, NEW i \in 1 .. q
  PROVE  /\ Before(i, c) \in Nat
         /\ i * c = Before(i, c) + c
         /\ Before(i, c) + c <= Before(q + 1, c)
<1>1. i \in Nat \ {0}
  OBVIOUS
<1>2. QED
  BY <1>1, Elements DEF Before

(* Every byte of a payload belongs to an element. *)
LEMMA ElementAt ==
  ASSUME NEW c \in Sizes, NEW q \in Nat, NEW p \in 1 .. Before(q + 1, c)
  PROVE  \E i \in 1 .. q, k \in 1 .. c : p = Before(i, c) + k
BY Elements

(* A flattened sequence of parts of one size. *)
Uniform(s, c) == \A i \in 1 .. Len(s) : Len(s[i]) = c

(* t is made of the q parts of c elements in s. *)
MadeOf(t, s, q, c) ==
  /\ Len(t) = Before(q + 1, c)
  /\ \A i \in 1 .. q : \A k \in 1 .. c : t[Before(i, c) + k] = s[i][k]

(* Parts of one size lie where elements lie. *)
LEMMA UniformLayout ==
  ASSUME NEW S, NEW s \in Seq(Seq(S)), NEW c \in Sizes, Uniform(s, c)
  PROVE  FlattenSeq(s) \in Seq(S) /\ MadeOf(FlattenSeq(s), s, Len(s), c)
<1>1. PICK start : Layout(start, s, FlattenSeq(s))
  BY FlattenLayout
<1>2. PICK n \in Nat : n = Len(s)
  BY LenProperties
<1> DEFINE G == { m \in Nat : start[m] = Before(m, c) }
<1>3. 1 \in G
  BY <1>1, Elements DEF Layout
<1>4. ASSUME NEW m \in 1 .. n, m \in G PROVE m + 1 \in G
  <2>1. start[m + 1] = start[m] + c
    BY <1>1, <1>2 DEF Layout, Uniform
  <2>2. m \in Nat \ {0} /\ m + 1 \in Nat
    OBVIOUS
  <2>3. Before(m + 1, c) = Before(m, c) + c
    BY <2>2, Elements
  <2>4. QED
    BY <2>1, <2>2, <2>3, <1>4
<1>5. \A m \in 1 .. n + 1 : m \in G
  <2> HIDE DEF G
  <2>1. PICK l \in Nat : l = n + 1
    OBVIOUS
  <2>2. l - 1 = n
    BY <2>1
  <2>3. \A m \in 1 .. l - 1 : m \in G => m + 1 \in G
    BY <1>4, <2>2
  <2>4. \A m \in 1 .. l : m \in G
    BY <1>3, <2>3, UpTo
  <2>5. QED
    BY <2>1, <2>4
<1>6. start[n + 1] = Before(n + 1, c)
  <2>1. n + 1 \in 1 .. n + 1
    OBVIOUS
  <2>2. QED
    BY <1>5, <2>1
<1>7. \A i \in 1 .. n : start[i] = Before(i, c)
  BY <1>5
<1>8. Len(FlattenSeq(s)) = Before(n + 1, c)
  BY <1>1, <1>2, <1>6 DEF Layout
<1>9. ASSUME NEW i \in 1 .. n, NEW k \in 1 .. c
      PROVE  FlattenSeq(s)[Before(i, c) + k] = s[i][k]
  <2>1. Len(s[i]) = c
    BY <1>2 DEF Uniform
  <2>2. FlattenSeq(s)[start[i] + k] = s[i][k]
    BY <1>1, <1>2, <2>1 DEF Layout
  <2>3. QED
    BY <1>7, <2>2
<1>10. QED
  BY <1>2, <1>8, <1>9, FlattenLayout DEF MadeOf

-----------------------------------------------------------------------------
(* The values of a payload *)

(* The elements of a payload have this form. *)
WholeLength(code, payload) ==
  PayloadType(code) \notin Whole => Len(payload) % Size(code) = 0

(* A payload of one value. *)
LEMMA WholeValue ==
  ASSUME NEW code \in Known, NEW payload \in Seq(Byte),
         PayloadType(code) \in Whole, payload # <<>>
  PROVE  real_values(code, payload) = << [type |-> PayloadType(code), bytes |-> payload] >>
BY DEF real_values, process_element, Whole

(* An empty payload has no value. *)
LEMMA NoValue ==
  ASSUME NEW code, NEW payload, payload = <<>>
  PROVE  real_values(code, payload) = <<>>
BY DEF real_values

(* c elements after the first a. *)
LEMMA ByteSub ==
  ASSUME NEW S, NEW s \in Seq(S), NEW a \in Nat, NEW c \in Nat, a + c <= Len(s)
  PROVE  /\ SubSeq(s, a + 1, a + c) \in Seq(S)
         /\ Len(SubSeq(s, a + 1, a + c)) = c
         /\ \A k \in 1 .. c : SubSeq(s, a + 1, a + c)[k] = s[a + k]
<1>1. PICK m \in Int, n \in Int : m = a + 1 /\ n = a + c
  OBVIOUS
<1>2. Len(s) \in Nat /\ \A i \in 1 .. Len(s) : s[i] \in S
  BY ElementOfSeq, LenProperties
<1>3. PICK l \in Nat : l = Len(s)
  BY <1>2
<1>4. \A i \in m .. n : i \in 1 .. l
  BY <1>1, <1>3
<1>5. \A i \in m .. n : s[i] \in S
  BY <1>2, <1>3, <1>4
<1>6. /\ SubSeq(s, m, n) \in Seq(S)
      /\ Len(SubSeq(s, m, n)) = IF m <= n THEN n - m + 1 ELSE 0
      /\ \A i \in 1 .. n - m + 1 : SubSeq(s, m, n)[i] = s[m + i - 1]
  BY <1>5, SubSeqProperties
<1>7. n - m + 1 = c /\ (m <= n <=> c # 0) /\ \A k \in 1 .. c : m + k - 1 = a + k
  BY <1>1
<1>8. QED
  BY <1>1, <1>6, <1>7

(* The bytes e are the i-th element of s. *)
IsElement(e, s, c, i) ==
  /\ e \in Seq(Byte)
  /\ Len(e) = c
  /\ \A k \in 1 .. c : e[k] = s[Before(i, c) + k]

(* The bytes of an element are those of the payload at its place. *)
LEMMA ElementBytes ==
  ASSUME NEW s \in Seq(Byte), NEW c \in Sizes, NEW q \in Nat,
         NEW i \in 1 .. q, Len(s) = Before(q + 1, c)
  PROVE  IsElement(element(s, c, i), s, c, i)
<1>1. PICK a \in Nat : a = Before(i, c)
  BY ElementStart
<1>2. element(s, c, i) = SubSeq(s, a + 1, a + c)
  <2>1. (i - 1) * c = a
    BY <1>1 DEF Before
  <2>2. i * c = a + c
    BY <1>1, ElementStart
  <2>3. QED
    BY <2>1, <2>2 DEF element
<1>3. a + c <= Len(s)
  BY <1>1, ElementStart
<1>4. c \in Nat
  BY DEF Sizes
<1>5. /\ SubSeq(s, a + 1, a + c) \in Seq(Byte)
      /\ Len(SubSeq(s, a + 1, a + c)) = c
      /\ \A k \in 1 .. c : SubSeq(s, a + 1, a + c)[k] = s[a + k]
  BY <1>3, <1>4, ByteSub
<1>6. IsElement(SubSeq(s, a + 1, a + c), s, c, i)
  BY <1>1, <1>5 DEF IsElement
<1>7. QED
  BY <1>2, <1>6

(* The values of a payload of elements of one size. *)
ValuesOf(values, payload, type, q, c) ==
  /\ Len(payload) = Before(q + 1, c)
  /\ Len(values) = q
  /\ DOMAIN values = 1 .. q
  /\ \A i \in 1 .. q :
       /\ values[i] = process_element(type, element(payload, c, i))
       /\ values[i].type = type
       /\ values[i].bytes \in Seq(Byte)
       /\ Len(values[i].bytes) = c
       /\ type # "FLAG" => values[i].bytes = element(payload, c, i)

(* A payload of whole elements is read into their values. *)
LEMMA ElementValues ==
  ASSUME NEW code \in Known \ {0, 255}, NEW payload \in Seq(Byte),
         PayloadType(code) \notin Whole, WholeLength(code, payload)
  PROVE  \E c \in Sizes, q \in Nat :
           /\ c = Size(code)
           /\ q = Len(payload) \div c
           /\ ValuesOf(real_values(code, payload), payload, PayloadType(code), q, c)
<1>1. PICK c \in Sizes : c = Size(code)
  BY CodeFacts
<1>2. PICK l \in Nat : l = Len(payload)
  BY LenProperties
<1>3. PICK q \in Nat : q = l \div c
  BY Elements
<1>4. Before(q + 1, c) = l
  <2>1. l % c = 0
    BY <1>1, <1>2 DEF WholeLength
  <2>2. QED
    BY <1>3, <2>1, Elements
<1>5. PICK rv : rv = real_values(code, payload)
  OBVIOUS
<1>6. rv = [ i \in 1 .. q |-> process_element(PayloadType(code), element(payload, c, i)) ]
  <2>1. CASE payload = <<>>
    <3>1. l = 0
      BY <2>1, <1>2, EmptySeq
    <3>2. q = 0
      BY <3>1, <1>3 DEF Sizes
    <3>3. rv = <<>>
      BY <2>1, <1>5, NoValue
    <3>4. QED
      BY <3>2, <3>3
  <2>2. CASE payload # <<>>
    BY <2>2, <1>1, <1>2, <1>3, <1>5 DEF real_values, Size
  <2>3. QED
    BY <2>1, <2>2
<1>7. Len(rv) = q /\ DOMAIN rv = 1 .. q
  BY <1>6
<1>8. ASSUME NEW i \in 1 .. q
      PROVE  /\ rv[i] = process_element(PayloadType(code), element(payload, c, i))
             /\ rv[i].type = PayloadType(code)
             /\ rv[i].bytes \in Seq(Byte)
             /\ Len(rv[i].bytes) = c
             /\ PayloadType(code) # "FLAG" => rv[i].bytes = element(payload, c, i)
  <2>1. PICK e : e = element(payload, c, i)
    OBVIOUS
  <2>2. e \in Seq(Byte) /\ Len(e) = c
    <3>1. Len(payload) = Before(q + 1, c)
      BY <1>2, <1>4
    <3>2. IsElement(element(payload, c, i), payload, c, i)
      BY <3>1, ElementBytes
    <3>3. QED
      BY <2>1, <3>2 DEF IsElement
  <2>3. rv[i] = process_element(PayloadType(code), e)
    BY <2>1, <1>6
  <2>4. /\ rv[i].type = PayloadType(code)
        /\ rv[i].bytes = IF PayloadType(code) = "FLAG" /\ e # <<0>> THEN <<1>> ELSE e
    BY <2>3 DEF process_element
  <2>5. PayloadType(code) = "FLAG" => c = 1
    BY <1>1, CodeFacts
  <2>6. <<1>> \in Seq(Byte) /\ Len(<<1>>) = 1
    BY DEF Byte
  <2>7. QED
    BY <2>1, <2>2, <2>3, <2>4, <2>5, <2>6
<1>9. ValuesOf(rv, payload, PayloadType(code), q, c)
  BY <1>2, <1>4, <1>7, <1>8 DEF ValuesOf
<1>10. QED
  BY <1>1, <1>2, <1>3, <1>5, <1>9

(* No parts make nothing. *)
LEMMA FlattenNone == FlattenSeq(<<>>) = <<>>
BY DEF FlattenSeq

(* One part is all there is. *)
LEMMA FlattenOne ==
  ASSUME NEW S, NEW part \in Seq(S)
  PROVE  FlattenSeq(<<part>>) = part
<1>1. PICK B : B = Seq(S)
  OBVIOUS
<1>2. /\ <<part>> \in Seq(B) /\ <<part>> # <<>>
      /\ Len(<<part>>) = 1 /\ <<part>>[1] = part
  BY <1>1
<1>3. PICK s : s = <<part>>
  OBVIOUS
<1>4. s \in Seq(Seq(S)) /\ s # <<>> /\ Len(s) = 1 /\ s[1] = part
  BY <1>1, <1>2, <1>3
<1>5. PICK f \in [1 .. Len(s) -> Seq(S)] : f[1] = s[1] /\ FlattenSeq(s) = f[Len(s)]
  BY <1>4, FlattenFunction
<1>6. QED
  BY <1>3, <1>4, <1>5

(* The bytes of the values are those of the payload, in its order. *)
LEMMA PayloadIsRead ==
  ASSUME NEW code \in Known \ {0, 255}, NEW payload \in Seq(Byte),
         PayloadType(code) # "FLAG", WholeLength(code, payload)
  PROVE  FlattenSeq([ v \in DOMAIN real_values(code, payload) |->
                        real_values(code, payload)[v].bytes ]) = payload
<1>1. PICK rv : rv = real_values(code, payload)
  OBVIOUS
<1>2. PICK s : s = [ v \in DOMAIN rv |-> rv[v].bytes ]
  OBVIOUS
<1>3. CASE payload = <<>>
  <2>1. rv = <<>>
    BY <1>1, <1>3, NoValue
  <2>2. s = <<>>
    BY <1>2, <2>1
  <2>3. QED
    BY <2>2, <1>1, <1>2, <1>3, FlattenNone
<1>4. CASE payload # <<>> /\ PayloadType(code) \in Whole
  <2>1. rv = << [type |-> PayloadType(code), bytes |-> payload] >>
    BY <1>1, <1>4, WholeValue
  <2>2. DOMAIN rv = 1 .. 1 /\ rv[1].bytes = payload
    BY <2>1
  <2>3. s = [ v \in 1 .. 1 |-> rv[v].bytes ]
    BY <1>2, <2>2
  <2>4. s = <<payload>>
    BY <2>2, <2>3
  <2>5. QED
    BY <2>4, <1>1, <1>2, FlattenOne
<1>5. CASE PayloadType(code) \notin Whole
  <2>1. PICK c \in Sizes, q \in Nat : ValuesOf(rv, payload, PayloadType(code), q, c)
    BY <1>1, <1>5, ElementValues
  <2>2. /\ Len(payload) = Before(q + 1, c)
        /\ DOMAIN rv = 1 .. q
        /\ \A i \in 1 .. q :
             /\ rv[i].bytes \in Seq(Byte)
             /\ Len(rv[i].bytes) = c
             /\ rv[i].bytes = element(payload, c, i)
    BY <2>1 DEF ValuesOf
  <2>3. s = [ v \in 1 .. q |-> rv[v].bytes ]
    BY <1>2, <2>2
  <2>4. s \in Seq(Seq(Byte)) /\ Len(s) = q /\ \A i \in 1 .. q : s[i] = element(payload, c, i)
    BY <2>2, <2>3
  <2>5. Uniform(s, c)
    <3>1. ASSUME NEW i \in 1 .. q PROVE Len(s[i]) = c
      <4>1. s[i] = element(payload, c, i)
        BY <2>4
      <4>2. rv[i].bytes = element(payload, c, i)
        BY <2>2
      <4>3. Len(rv[i].bytes) = c
        BY <2>2
      <4>4. QED
        BY <4>1, <4>2, <4>3
    <3>2. QED
      BY <2>4, <3>1 DEF Uniform
  <2>6. PICK t : t = FlattenSeq(s)
    OBVIOUS
  <2>7. t \in Seq(Byte) /\ MadeOf(t, s, q, c)
    BY <2>4, <2>5, <2>6, UniformLayout
  <2>8. \A p \in 1 .. Before(q + 1, c) : t[p] = payload[p]
    <3> TAKE p \in 1 .. Before(q + 1, c)
    <3>1. PICK i \in 1 .. q, k \in 1 .. c : p = Before(i, c) + k
      BY ElementAt
    <3>2. t[Before(i, c) + k] = s[i][k]
      BY <2>7 DEF MadeOf
    <3>3. element(payload, c, i)[k] = payload[Before(i, c) + k]
      <4>1. Len(payload) = Before(q + 1, c)
        BY <2>2
      <4>2. IsElement(element(payload, c, i), payload, c, i)
        BY <4>1, ElementBytes
      <4>3. QED
        BY <4>2 DEF IsElement
    <3>4. QED
      BY <3>1, <3>2, <3>3, <2>4
  <2>9. t = payload
    <3>1. Len(t) = Len(payload) /\ \A p \in 1 .. Len(t) : t[p] = payload[p]
      BY <2>2, <2>7, <2>8 DEF MadeOf
    <3>2. QED
      BY <3>1, <2>7, SeqEqual
  <2>10. QED
    BY <1>1, <1>2, <2>6, <2>9
<1>6. QED
  BY <1>3, <1>4, <1>5

-----------------------------------------------------------------------------
(* What the constructor of an option accepts *)

(* What an entry of a message is. *)
LEMMA EntryType ==
  ASSUME NEW e \in Entries
  PROVE  /\ e.code \in Byte
         /\ e.payload \in Seq(Byte)
         /\ e.code \in {0, 255} => e.payload = <<>>
         /\ HasWholeElements(e.code, e.payload)
<1>1. e.code \in Byte /\ e.payload \in Seq(Byte)
  BY DEF Entries
<1>2. QED
  BY <1>1 DEF Entries

(* The length of a payload fits its byte. *)
LEMMA EntryLength ==
  ASSUME NEW e \in Entries
  PROVE  Len(e.payload) \in Byte
<1>1. PICK p \in Seq(Byte) : p = e.payload
  BY DEF Entries
<1>2. PICK l \in Nat : l = Len(p)
  BY LenProperties
<1>3. l <= 255
  BY <1>1, <1>2 DEF Entries
<1>4. l \in Byte
  BY <1>3 DEF Byte
<1>5. QED
  BY <1>1, <1>2, <1>4

(* What the constructor accepts is known and has whole elements. *)
LEMMA AcceptedLength ==
  ASSUME NEW code, code \notin {0, 255}, NEW payload \in Seq(Byte),
         Accepts(code, payload), HasWholeElements(code, payload)
  PROVE  /\ code \in Known \ {0, 255}
         /\ PayloadType(code) # "NONE"
         /\ WholeLength(code, payload)
<1>1. code \in Known /\ PayloadType(code) # "NONE"
  BY DEF Accepts
<1>2. CASE PayloadType(code) \in Whole
  BY <1>1, <1>2 DEF WholeLength
<1>3. CASE code \in ListCodes
  BY <1>1, <1>3 DEF WholeLength, HasWholeElements, Size
<1>4. CASE PayloadType(code) \notin Whole /\ code \notin ListCodes
  <2>1. Len(payload) = Size(code)
    BY <1>4 DEF Accepts, VariableLength, Size
  <2>2. Size(code) \in {1, 2, 4, 8}
    BY <1>1, <1>4, CodeFacts DEF Sizes
  <2>3. Len(payload) % Size(code) = 0
    BY <2>1, <2>2
  <2>4. QED
    BY <1>1, <2>3 DEF WholeLength
<1>5. QED
  BY <1>2, <1>3, <1>4

(* A payload of one element has one value. *)
LEMMA OneValue ==
  ASSUME NEW code \in Known \ {0, 255}, NEW payload \in Seq(Byte),
         PayloadType(code) \notin Whole, PayloadType(code) # "FLAG",
         Len(payload) = Size(code)
  PROVE  /\ DOMAIN real_values(code, payload) = {1}
         /\ real_values(code, payload)[1].type = PayloadType(code)
         /\ real_values(code, payload)[1].bytes = payload
<1>1. Size(code) \in Sizes
  BY CodeFacts
<1>2. WholeLength(code, payload)
  <2>1. Size(code) % Size(code) = 0
    BY <1>1 DEF Sizes
  <2>2. QED
    BY <2>1 DEF WholeLength
<1>3. PICK c \in Sizes, q \in Nat :
           /\ c = Size(code)
           /\ q = Len(payload) \div c
           /\ ValuesOf(real_values(code, payload), payload, PayloadType(code), q, c)
  BY <1>2, ElementValues
<1>4. q = 1
  BY <1>3 DEF Sizes
<1>5. PICK rv : rv = real_values(code, payload)
  OBVIOUS
<1>6. 1 \in 1 .. q /\ 1 .. q = {1}
  BY <1>4
<1>7. /\ DOMAIN rv = {1}
      /\ rv[1].type = PayloadType(code)
      /\ rv[1].bytes = element(payload, c, 1)
      /\ Len(payload) = Before(q + 1, c)
  BY <1>3, <1>5, <1>6 DEF ValuesOf
<1>8. /\ element(payload, c, 1) \in Seq(Byte)
      /\ Len(element(payload, c, 1)) = c
      /\ \A k \in 1 .. c : element(payload, c, 1)[k] = payload[Before(1, c) + k]
  <2>1. Len(payload) = Before(q + 1, c)
    BY <1>7
  <2>2. 1 \in 1 .. q
    BY <1>6
  <2>3. IsElement(element(payload, c, 1), payload, c, 1)
    BY <2>1, <2>2, ElementBytes
  <2>4. QED
    BY <2>3 DEF IsElement
<1>9. \A k \in 1 .. c : Before(1, c) + k = k
  BY Elements
<1>10. element(payload, c, 1) = payload
  <2>1. Len(element(payload, c, 1)) = Len(payload)
    BY <1>3, <1>8
  <2>2. \A k \in 1 .. Len(element(payload, c, 1)) : element(payload, c, 1)[k] = payload[k]
    BY <1>8, <1>9
  <2>3. QED
    BY <1>8, <2>1, <2>2, SeqEqual
<1>11. QED
  BY <1>5, <1>7, <1>10

(* What the constructor refuses is what the table forbids, but for the     *)
(* minimum lengths it does not look at.                                    *)
LEMMA AcceptsIsLegal ==
  ASSUME NEW e \in Entries, e.code \notin {0, 255}
  PROVE  Accepts(e.code, e.payload) <=> Legal(e) \/ Short(e)
<1>1. PICK code, payload : code = e.code /\ payload = e.payload
  OBVIOUS
<1>2. /\ code \in Byte /\ payload \in Seq(Byte) /\ code \notin {0, 255}
      /\ HasWholeElements(code, payload)
  BY <1>1, EntryType
<1>3. PICK l \in Nat : l = Len(payload)
  BY <1>2, LenProperties
<1>4. CASE code \notin Known
  BY <1>1, <1>4 DEF Accepts, Legal, Short
<1>5. CASE code \in Known /\ VariableLength(code)
  <2>1. PICK type : type = PayloadType(code)
    OBVIOUS
  <2>2. type # "NONE" /\ code \notin DOMAIN int_constraint
    BY <1>2, <1>5, <2>1, CodeFacts DEF VariableLength
  <2>3. Accepts(code, payload)
          <=> (type = "BYTE_ARRAY" => l \notin 1 .. min_len_in_elements(code) - 1)
    BY <1>3, <1>5, <2>1, <2>2 DEF Accepts, is_correct_uint
  <2>4. Short(e) <=> payload = <<>> \/ type # "BYTE_ARRAY"
    BY <1>1, <1>5, <2>1 DEF Short
  <2>5. CASE type # "BYTE_ARRAY"
    BY <1>1, <2>3, <2>4, <2>5
  <2>6. CASE type = "BYTE_ARRAY"
    <3>1. min_len_in_elements(code) \in {1, 2}
      BY <1>5, <2>1, <2>6, CodeFacts, ZenonT(30)
    <3>2. Legal(e) <=> l >= min_len_in_elements(code) * 1
      BY <1>1, <1>2, <1>3, <1>5, <2>1, <2>2, <2>6 DEF Legal, Whole
    <3>3. payload = <<>> <=> l = 0
      BY <1>2, <1>3, EmptySeq
    <3>4. l \notin 1 .. min_len_in_elements(code) - 1
            <=> l >= min_len_in_elements(code) * 1 \/ l = 0
      BY <3>1
    <3>5. QED
      BY <1>1, <2>3, <2>4, <2>6, <3>2, <3>3, <3>4
  <2>7. QED
    BY <2>5, <2>6
<1>6. CASE code \in Known /\ ~VariableLength(code)
  <2>1. PayloadType(code) # "NONE" /\ PayloadType(code) \notin Whole
    BY <1>2, <1>6, CodeFacts DEF VariableLength
  <2>2. PayloadType(code) # "BYTE_ARRAY"
    BY <2>1 DEF Whole
  <2>3. ~Short(e)
    BY <1>1, <1>6 DEF Short
  <2>4. Legal(e) <=>
          /\ l = Size(code)
          /\ code \in DOMAIN int_constraint => Number(payload) \in int_constraint[code]
    BY <1>1, <1>2, <1>3, <1>6, <2>1 DEF Legal, Size
  <2>5. Accepts(code, payload) <=>
          /\ l = Size(code)
          /\ \A i \in DOMAIN real_values(code, payload) :
               is_correct_uint(code, real_values(code, payload)[i])
    BY <1>1, <1>2, <1>3, <1>6, <2>1, <2>2 DEF Accepts, Size
  <2>6. CASE code \notin DOMAIN int_constraint
    BY <1>1, <2>3, <2>4, <2>5, <2>6 DEF is_correct_uint
  <2>7. CASE code \in DOMAIN int_constraint /\ l = Size(code)
    <3>1. PayloadType(code) # "FLAG"
      BY <1>6, <2>7, CodeFacts
    <3>2. /\ DOMAIN real_values(code, payload) = {1}
          /\ real_values(code, payload)[1].bytes = payload
      <4>1. code \in Known \ {0, 255} /\ payload \in Seq(Byte) /\ Len(payload) = Size(code)
        BY <1>2, <1>3, <1>6, <2>7
      <4>2. PayloadType(code) \notin Whole /\ PayloadType(code) # "FLAG"
        BY <2>1, <3>1
      <4>3. QED
        BY <4>1, <4>2, OneValue
    <3>3. QED
      BY <1>1, <2>3, <2>4, <2>5, <2>7, <3>2 DEF is_correct_uint
  <2>8. CASE l # Size(code)
    BY <1>1, <2>3, <2>4, <2>5, <2>8
  <2>9. QED
    BY <2>6, <2>7, <2>8
<1>7. QED
  BY <1>4, <1>5, <1>6

-----------------------------------------------------------------------------
(* Options written and read again *)

(* The bytes of a number in the other order. *)
LEMMA Reversed ==
  ASSUME NEW S, NEW s \in Seq(S)
  PROVE  Reverse(s) \in Seq(S) /\ Len(Reverse(s)) = Len(s)
<1>1. PICK n \in Nat : n = Len(s)
  BY LenProperties
<1>2. \A i \in 1 .. n : s[i] \in S
  BY <1>1, ElementOfSeq
<1>3. \A i \in 1 .. n : n - i + 1 \in 1 .. n
  OBVIOUS
<1>4. PICK r : r = [i \in 1 .. n |-> s[n - i + 1]]
  OBVIOUS
<1>5. Reverse(s) = r
  BY <1>1, <1>4 DEF Reverse
<1>6. r \in [1 .. n -> S]
  BY <1>2, <1>3, <1>4
<1>7. r \in Seq(S) /\ Len(r) = n
  BY <1>6
<1>8. QED
  BY <1>1, <1>5, <1>7

(* What an option that was accepted holds. *)
LEMMA AcceptedValues ==
  ASSUME NEW code \in Known \ {0, 255}, NEW payload \in Seq(Byte), WholeLength(code, payload)
  PROVE  \A v \in DOMAIN real_values(code, payload) :
           real_values(code, payload)[v].bytes \in Seq(Byte)
<1>1. PICK rv : rv = real_values(code, payload)
  OBVIOUS
<1>2. CASE payload = <<>>
  BY <1>1, <1>2, NoValue
<1>3. CASE payload # <<>> /\ PayloadType(code) \in Whole
  <2>1. rv = << [type |-> PayloadType(code), bytes |-> payload] >>
    BY <1>1, <1>3, WholeValue
  <2>2. DOMAIN rv = 1 .. 1 /\ rv[1].bytes = payload
    BY <2>1
  <2>3. QED
    BY <1>1, <2>2
<1>4. CASE PayloadType(code) \notin Whole
  <2>1. PICK c \in Sizes, q \in Nat : ValuesOf(rv, payload, PayloadType(code), q, c)
    BY <1>1, <1>4, ElementValues
  <2>2. QED
    BY <1>1, <2>1 DEF ValuesOf
<1>5. QED
  BY <1>2, <1>3, <1>4

(* An option the constructor returned holds what its entry says. *)
LEMMA AcceptedOption ==
  ASSUME NEW e \in Entries, e.code \notin {0, 255}, Accepts(e.code, e.payload)
  PROVE  /\ e.code \in Known \ {0, 255}
         /\ IsOptionOf(Option(e.code, e.payload), e)
<1>1. PICK code, payload : code = e.code /\ payload = e.payload
  OBVIOUS
<1>2. payload \in Seq(Byte) /\ code \notin {0, 255} /\ HasWholeElements(code, payload)
  BY <1>1, EntryType
<1>3. code \in Known \ {0, 255} /\ WholeLength(code, payload)
  BY <1>1, <1>2, AcceptedLength
<1>4. PICK o : o = Option(code, payload)
  OBVIOUS
<1>5. o.code = code /\ o.real_payload_length = Len(payload) /\ o.real_values = real_values(code, payload)
  BY <1>4 DEF Option
<1>6. PayloadType(code) # "FLAG" =>
        FlattenSeq([ v \in DOMAIN o.real_values |-> o.real_values[v].bytes ]) = payload
  BY <1>2, <1>3, <1>5, PayloadIsRead
<1>7. IsOptionOf(o, e)
  BY <1>1, <1>5, <1>6 DEF IsOptionOf
<1>8. QED
  BY <1>1, <1>3, <1>4, <1>7

(* The bytes an option is written as, from those of its values. *)
LEMMA WrittenOption ==
  ASSUME NEW code \in Byte, NEW n \in Byte, NEW t \in Seq(Byte)
  PROVE  /\ <<code, n>> \o t \in Seq(Byte)
         /\ Len(<<code, n>> \o t) = 2 + Len(t)
         /\ (<<code, n>> \o t)[1] = code
         /\ (<<code, n>> \o t)[2] = n
         /\ \A k \in 1 .. Len(t) : (<<code, n>> \o t)[2 + k] = t[k]
         /\ SubSeq(<<code, n>> \o t, 3, Len(<<code, n>> \o t)) = t
<1>1. PICK h : h = <<code, n>>
  OBVIOUS
<1>2. h \in Seq(Byte) /\ Len(h) = 2 /\ h[1] = code /\ h[2] = n
  BY <1>1
<1>3. PICK l \in Nat : l = Len(t)
  BY LenProperties
<1>4. PICK w : w = h \o t
  OBVIOUS
<1>5. /\ w \in Seq(Byte)
      /\ Len(w) = 2 + l
      /\ \A i \in 1 .. 2 + l : w[i] = IF i <= 2 THEN h[i] ELSE t[i - 2]
  <2>1. /\ h \o t \in Seq(Byte)
        /\ Len(h \o t) = Len(h) + Len(t)
        /\ \A i \in 1 .. Len(h) + Len(t) :
             (h \o t)[i] = IF i <= Len(h) THEN h[i] ELSE t[i - Len(h)]
    BY <1>2, ConcatProperties
  <2>2. QED
    BY <1>2, <1>3, <1>4, <2>1
<1>6. w[1] = code /\ w[2] = n
  BY <1>2, <1>5
<1>7. \A k \in 1 .. l : w[2 + k] = t[k]
  <2> TAKE k \in 1 .. l
  <2>1. 2 + k \in 1 .. 2 + l /\ ~(2 + k <= 2) /\ 2 + k - 2 = k
    OBVIOUS
  <2>2. QED
    BY <2>1, <1>5
<1>8. SubSeq(w, 2 + 1, 2 + l) = t
  <2>1. PICK x : x = SubSeq(w, 2 + 1, 2 + l)
    OBVIOUS
  <2>2. x \in Seq(Byte) /\ Len(x) = l /\ \A k \in 1 .. l : x[k] = w[2 + k]
    BY <1>5, <2>1, ByteSub
  <2>3. x = t
    BY <1>3, <1>7, <2>2, SeqEqual
  <2>4. QED
    BY <2>1, <2>3
<1>9. QED
  BY <1>1, <1>3, <1>4, <1>5, <1>6, <1>7, <1>8

(* A value is written as its bytes, in their order or the other one. *)
LEMMA NetworkData ==
  ASSUME NEW v, v.bytes \in Seq(Byte)
  PROVE  /\ value_to_network_data(v) \in Seq(Byte)
         /\ Len(value_to_network_data(v)) = Len(v.bytes)
         /\ v.type \notin Multibyte \/ ~LittleEndian => value_to_network_data(v) = v.bytes
         /\ v.type \in Multibyte /\ LittleEndian => value_to_network_data(v) = Reverse(v.bytes)
BY Reversed DEF value_to_network_data

(* An option of one value. *)
LEMMA WrittenValue ==
  ASSUME NEW code \in Known \ {0, 255}, NEW payload \in Seq(Byte),
         PayloadType(code) \notin Whole, PayloadType(code) # "FLAG",
         Len(payload) = Size(code)
  PROVE  option_to_network_data(Option(code, payload)) =
           <<code, Len(payload)>> \o
             (IF PayloadType(code) \in Multibyte /\ LittleEndian
              THEN Reverse(payload) ELSE payload)
<1>1. PICK o : o = Option(code, payload)
  OBVIOUS
<1>2. /\ o.code = code
      /\ o.real_payload_length = Len(payload)
      /\ DOMAIN o.real_values = {1}
      /\ o.real_values[1].type = PayloadType(code)
      /\ o.real_values[1].bytes = payload
  BY <1>1, OneValue DEF Option
<1>3. PICK w : w = IF PayloadType(code) \in Multibyte /\ LittleEndian
                   THEN Reverse(payload) ELSE payload
  OBVIOUS
<1>4. value_to_network_data(o.real_values[1]) = w /\ w \in Seq(Byte)
  BY <1>2, <1>3, Reversed DEF value_to_network_data
<1>5. [ i \in DOMAIN o.real_values |-> value_to_network_data(o.real_values[i]) ] = <<w>>
  <2>1. PICK s : s = [ i \in DOMAIN o.real_values |-> value_to_network_data(o.real_values[i]) ]
    OBVIOUS
  <2>2. s = [ i \in {1} |-> w ]
    BY <1>2, <1>4, <2>1
  <2>3. s = <<w>>
    BY <2>2
  <2>4. QED
    BY <2>1, <2>3
<1>6. option_to_network_data(o) = <<code, Len(payload)>> \o w
  BY <1>2, <1>4, <1>5, FlattenOne DEF option_to_network_data
<1>7. QED
  BY <1>1, <1>3, <1>6

(* What is read from what was written of a value. *)
LEMMA OptionSurvives ==
  ASSUME NEW e \in Entries, e.code \notin {0, 255}, Accepts(e.code, e.payload)
  PROVE  LET option  == Option(e.code, e.payload)
             written == option_to_network_data(option)
             again   == real_values(written[1], SubSeq(written, 3, Len(written)))
         IN  ~UndefinedData(option) =>
               /\ written[1] = option.code
               /\ Len(written) = 2 + option.real_payload_length
               /\ Len(again) = Len(option.real_values)
               /\ \A v \in DOMAIN again : SameButForByteOrder(again[v], option.real_values[v])
<1>1. PICK code, payload : code = e.code /\ payload = e.payload
  OBVIOUS
<1>2. /\ code \in Byte /\ payload \in Seq(Byte) /\ code \notin {0, 255}
      /\ HasWholeElements(code, payload) /\ Len(payload) \in Byte
  <2>1. code \in Byte /\ payload \in Seq(Byte) /\ HasWholeElements(code, payload)
    BY <1>1, EntryType
  <2>2. Len(payload) \in Byte
    <3>1. Len(e.payload) \in Byte
      BY EntryLength
    <3>2. QED
      BY <1>1, <3>1
  <2>3. QED
    BY <1>1, <2>1, <2>2
<1>3. code \in Known \ {0, 255} /\ WholeLength(code, payload)
  BY <1>1, <1>2, AcceptedLength
<1>4. PICK o : o = Option(code, payload)
  OBVIOUS
<1>5. PICK rv : rv = real_values(code, payload)
  OBVIOUS
<1>6. o.code = code /\ o.real_payload_length = Len(payload) /\ o.real_values = rv
  BY <1>4, <1>5 DEF Option
<1>7. SUFFICES ASSUME PayloadType(code) # "FLAG"
               PROVE  LET written == option_to_network_data(o)
                          again   == real_values(written[1], SubSeq(written, 3, Len(written)))
                      IN  /\ written[1] = code
                          /\ Len(written) = 2 + Len(payload)
                          /\ Len(again) = Len(rv)
                          /\ \A v \in DOMAIN again : SameButForByteOrder(again[v], rv[v])
  BY <1>1, <1>4, <1>6 DEF UndefinedData
<1>8. PICK s : s = [ i \in DOMAIN rv |-> value_to_network_data(rv[i]) ]
  OBVIOUS
<1>9. PICK t : t = FlattenSeq(s)
  OBVIOUS
<1>10. option_to_network_data(o) = <<code, Len(payload)>> \o t
  BY <1>6, <1>8, <1>9 DEF option_to_network_data
<1>11. /\ t \in Seq(Byte)
       /\ Len(t) = Len(payload)
       /\ Len(real_values(code, t)) = Len(rv)
       /\ \A v \in DOMAIN real_values(code, t) : SameButForByteOrder(real_values(code, t)[v], rv[v])
  <2>1. CASE payload = <<>>
    <3>1. rv = <<>>
      BY <1>5, <2>1, NoValue
    <3>2. s = <<>>
      BY <1>8, <3>1
    <3>3. t = <<>>
      BY <1>9, <3>2, FlattenNone
    <3>4. real_values(code, t) = <<>>
      BY <3>3, NoValue
    <3>5. QED
      BY <2>1, <3>1, <3>3, <3>4, EmptySeq
  <2>2. CASE payload # <<>> /\ PayloadType(code) \in Whole
    <3>1. rv = << [type |-> PayloadType(code), bytes |-> payload] >>
      BY <1>2, <1>3, <1>5, <2>2, WholeValue
    <3>2. DOMAIN rv = 1 .. 1 /\ rv[1].bytes = payload /\ rv[1].type = PayloadType(code)
      BY <3>1
    <3>3. PayloadType(code) \notin Multibyte
      BY <2>2 DEF Multibyte, Whole
    <3>4. value_to_network_data(rv[1]) = payload
      BY <3>2, <3>3 DEF value_to_network_data
    <3>5. s = [ i \in 1 .. 1 |-> payload ]
      BY <1>8, <3>2, <3>4
    <3>6. s = <<payload>>
      BY <3>5
    <3>7. t = payload
      BY <1>2, <1>9, <3>6, FlattenOne
    <3>8. real_values(code, t) = rv
      BY <1>5, <3>7
    <3>9. \A v \in DOMAIN rv : SameButForByteOrder(rv[v], rv[v])
      BY DEF SameButForByteOrder
    <3>10. QED
      BY <1>2, <3>7, <3>8, <3>9
  <2>3. CASE PayloadType(code) \notin Whole
    <3>1. PICK c \in Sizes, q \in Nat :
             /\ c = Size(code)
             /\ q = Len(payload) \div c
             /\ ValuesOf(rv, payload, PayloadType(code), q, c)
      BY <1>2, <1>3, <1>5, <2>3, ElementValues
    <3>2. /\ DOMAIN rv = 1 .. q
          /\ Len(rv) = q
          /\ Len(payload) = Before(q + 1, c)
          /\ \A i \in 1 .. q :
               /\ rv[i].type = PayloadType(code)
               /\ rv[i].bytes \in Seq(Byte)
               /\ Len(rv[i].bytes) = c
      BY <3>1 DEF ValuesOf
    <3>3. \A i \in 1 .. q :
            /\ value_to_network_data(rv[i]) \in Seq(Byte)
            /\ Len(value_to_network_data(rv[i])) = c
      BY <3>2, NetworkData
    <3>4. s = [ i \in 1 .. q |-> value_to_network_data(rv[i]) ]
      BY <1>8, <3>2
    <3>5. /\ s \in Seq(Seq(Byte)) /\ Len(s) = q
          /\ \A i \in 1 .. q : s[i] = value_to_network_data(rv[i])
      BY <3>3, <3>4
    <3>6. Uniform(s, c)
      <4>1. ASSUME NEW i \in 1 .. q PROVE Len(s[i]) = c
        <5>1. s[i] = value_to_network_data(rv[i])
          BY <3>5
        <5>2. Len(value_to_network_data(rv[i])) = c
          BY <3>3
        <5>3. QED
          BY <5>1, <5>2
      <4>2. QED
        BY <3>5, <4>1 DEF Uniform
    <3>7. t \in Seq(Byte) /\ MadeOf(t, s, q, c)
      BY <1>9, <3>5, <3>6, UniformLayout
    <3>8. Len(t) = Before(q + 1, c) /\ Len(t) = Len(payload)
      BY <3>2, <3>7 DEF MadeOf
    <3>9. WholeLength(code, t)
      BY <1>3, <3>8 DEF WholeLength
    <3>10. PICK again : again = real_values(code, t)
      OBVIOUS
    <3>11. ValuesOf(again, t, PayloadType(code), q, c)
      <4>1. PICK d \in Sizes, r \in Nat :
             /\ d = Size(code)
             /\ r = Len(t) \div d
             /\ ValuesOf(again, t, PayloadType(code), r, d)
        BY <1>3, <2>3, <3>7, <3>9, <3>10, ElementValues
      <4>2. d = c /\ r = q
        BY <3>1, <3>8, <4>1
      <4>3. QED
        BY <4>1, <4>2
    <3>12. /\ Len(again) = q /\ DOMAIN again = 1 .. q
           /\ \A i \in 1 .. q :
                again[i].type = PayloadType(code) /\ again[i].bytes = element(t, c, i)
      BY <1>7, <3>11 DEF ValuesOf
    <3>13. ASSUME NEW i \in 1 .. q PROVE SameButForByteOrder(again[i], rv[i])
      <4>1. /\ element(t, c, i) \in Seq(Byte)
            /\ Len(element(t, c, i)) = c
            /\ \A k \in 1 .. c : element(t, c, i)[k] = t[Before(i, c) + k]
        <5>1. Len(t) = Before(q + 1, c)
          BY <3>8
        <5>2. t \in Seq(Byte)
          BY <3>7
        <5>3. IsElement(element(t, c, i), t, c, i)
          BY <5>1, <5>2, ElementBytes
        <5>4. QED
          BY <5>3 DEF IsElement
      <4>2. PICK x, y : x = element(t, c, i) /\ y = value_to_network_data(rv[i])
        OBVIOUS
      <4>3. y \in Seq(Byte) /\ Len(y) = c
        BY <3>3, <4>2
      <4>4. s[i] = y
        BY <3>5, <4>2
      <4>5. \A k \in 1 .. c : t[Before(i, c) + k] = y[k]
        BY <3>7, <4>4 DEF MadeOf
      <4>6. x \in Seq(Byte) /\ Len(x) = c /\ \A k \in 1 .. c : x[k] = y[k]
        BY <4>1, <4>2, <4>5
      <4>7. x = y
        BY <4>3, <4>6, SeqEqual
      <4>8. again[i].bytes = value_to_network_data(rv[i])
        BY <3>12, <4>2, <4>7
      <4>9. again[i].type = rv[i].type
        BY <3>2, <3>12
      <4>10. QED
        BY <4>8, <4>9 DEF SameButForByteOrder, value_to_network_data
    <3>14. QED
      BY <3>2, <3>7, <3>8, <3>10, <3>12, <3>13
  <2>4. QED
    BY <2>1, <2>2, <2>3
<1>12. PICK w : w = option_to_network_data(o)
  OBVIOUS
<1>13. w[1] = code /\ Len(w) = 2 + Len(payload) /\ SubSeq(w, 3, Len(w)) = t
  BY <1>2, <1>10, <1>11, <1>12, WrittenOption
<1>14. QED
  BY <1>11, <1>12, <1>13

-----------------------------------------------------------------------------
(* The bytes of a datagram *)

(* The length of the fixed part. *)
Base == DHCP_MESSAGE_MIN_LENGTH

(* It holds the fields up to the hardware address. *)
LEMMA BaseLength == Base \in Nat /\ Base = 44 + SnameLength + FileLength /\ Base >= 44
BY LengthsAssumption DEF Base, DHCP_MESSAGE_MIN_LENGTH

(* Two sequences of bytes one after the other. *)
LEMMA Join ==
  ASSUME NEW a \in Seq(Byte), NEW b \in Seq(Byte)
  PROVE  /\ a \o b \in Seq(Byte)
         /\ Len(a \o b) = Len(a) + Len(b)
         /\ \A k \in 1 .. Len(a) : (a \o b)[k] = a[k]
         /\ \A k \in 1 .. Len(b) : (a \o b)[Len(a) + k] = b[k]
<1>0. PICK m \in Nat, n \in Nat : m = Len(a) /\ n = Len(b)
  BY LenProperties
<1>1. PICK c : c = a \o b
  OBVIOUS
<1>2. /\ c \in Seq(Byte)
      /\ Len(c) = m + n
      /\ \A k \in 1 .. m + n : c[k] = IF k <= m THEN a[k] ELSE b[k - m]
  BY <1>0, <1>1, ConcatProperties
<1>3. \A k \in 1 .. m : k \in 1 .. m + n /\ k <= m
  OBVIOUS
<1>4. \A k \in 1 .. n : m + k \in 1 .. m + n /\ ~(m + k <= m) /\ m + k - m = k
  OBVIOUS
<1>5. \A k \in 1 .. m : c[k] = a[k]
  BY <1>2, <1>3
<1>6. ASSUME NEW k \in 1 .. n PROVE c[m + k] = b[k]
  <2>1. PICK j \in 1 .. m + n : j = m + k /\ ~(j <= m) /\ j - m = k
    BY <1>4
  <2>2. c[j] = b[j - m]
    BY <1>2, <2>1
  <2>3. QED
    BY <2>1, <2>2
<1>7. QED
  BY <1>0, <1>1, <1>2, <1>5, <1>6

(* Zeros are bytes. *)
LEMMA ZerosAreBytes ==
  ASSUME NEW n \in Nat
  PROVE  Zeros(n) \in Seq(Byte) /\ Len(Zeros(n)) = n
<1>1. 0 \in Byte
  BY DEF Byte
<1>2. Zeros(n) \in [1 .. n -> Byte]
  BY <1>1 DEF Zeros
<1>3. QED
  BY <1>2

(* An address or a transaction is four bytes. *)
LEMMA FourAreBytes ==
  ASSUME NEW x \in FourBytes
  PROVE  x \in Seq(Byte) /\ Len(x) = 4
BY DEF FourBytes

(* The bytes of a part of a datagram. *)
LEMMA Part ==
  ASSUME NEW d \in Seq(Byte), NEW x \in Seq(Byte), NEW a \in Nat,
         a + Len(x) <= Len(d), \A k \in 1 .. Len(x) : d[a + k] = x[k]
  PROVE  SubSeq(d, a + 1, a + Len(x)) = x
<1>1. PICK n \in Nat : n = Len(x)
  BY LenProperties
<1>2. PICK y : y = SubSeq(d, a + 1, a + n)
  OBVIOUS
<1>3. y \in Seq(Byte) /\ Len(y) = n /\ \A k \in 1 .. n : y[k] = d[a + k]
  BY <1>1, <1>2, ByteSub
<1>4. y = x
  BY <1>1, <1>3, SeqEqual
<1>5. QED
  BY <1>1, <1>2, <1>4

(* The entries as they are written, one by one. *)
Encoded(es) == [ i \in DOMAIN es |-> Encode(es[i]) ]

(* The bytes of an entry. *)
LEMMA EncodeBytes ==
  ASSUME NEW e \in Entries
  PROVE  /\ Encode(e) \in Seq(Byte)
         /\ Encode(e)[1] = e.code
         /\ e.code \in {0, 255} => Len(Encode(e)) = 1
         /\ e.code \notin {0, 255} =>
              /\ Len(Encode(e)) = 2 + Len(e.payload)
              /\ Encode(e)[2] = Len(e.payload)
              /\ \A k \in 1 .. Len(e.payload) : Encode(e)[2 + k] = e.payload[k]
<1>1. e.code \in Byte /\ e.payload \in Seq(Byte)
  BY EntryType
<1>2. CASE e.code \in {0, 255}
  <2>1. Encode(e) = <<e.code>>
    BY <1>2 DEF Encode
  <2>2. QED
    BY <1>1, <1>2, <2>1
<1>3. CASE e.code \notin {0, 255}
  <2>1. Encode(e) = <<e.code, Len(e.payload)>> \o e.payload
    BY <1>3 DEF Encode
  <2>2. Len(e.payload) \in Byte
    BY EntryLength
  <2>3. QED
    BY <1>1, <1>3, <2>1, <2>2, WrittenOption
<1>4. QED
  BY <1>2, <1>3

(* The bytes of each of several entries. *)
LEMMA EncodedBytes ==
  ASSUME NEW es \in Seq(Entries)
  PROVE  /\ Encoded(es) \in Seq(Seq(Byte))
         /\ Len(Encoded(es)) = Len(es)
         /\ \A i \in 1 .. Len(es) : Encoded(es)[i] = Encode(es[i])
<1>1. PICK n \in Nat : n = Len(es) /\ DOMAIN es = 1 .. n
  BY LenProperties
<1>2. \A i \in 1 .. n : es[i] \in Entries
  BY <1>1, ElementOfSeq
<1>3. PICK s : s = [ i \in 1 .. n |-> Encode(es[i]) ]
  OBVIOUS
<1>4. \A i \in 1 .. n : Encode(es[i]) \in Seq(Byte)
  BY <1>2, EncodeBytes
<1>5. s \in [1 .. n -> Seq(Byte)]
  BY <1>3, <1>4
<1>6. s \in Seq(Seq(Byte)) /\ Len(s) = n /\ \A i \in 1 .. n : s[i] = Encode(es[i])
  BY <1>3, <1>5
<1>7. QED
  BY <1>1, <1>3, <1>6 DEF Encoded

(* The entries es lie in the datagram d after the magic cookie, the i-th   *)
(* start[i] bytes behind it, and the tail after them.                      *)
Placed(d, es, start, tail) ==
  /\ start \in [1 .. Len(es) + 1 -> Nat]
  /\ start[1] = 0
  /\ \A i \in 1 .. Len(es) : start[i + 1] = start[i] + Len(Encode(es[i]))
  /\ \A i \in 1 .. Len(es) + 1 : start[i] <= start[Len(es) + 1]
  /\ Base + 4 + start[Len(es) + 1] <= Len(d)
  /\ SubSeq(d, Base + 4 + start[Len(es) + 1] + 1, Len(d)) = tail
  /\ \A i \in 1 .. Len(es) : \A k \in 1 .. Len(Encode(es[i])) :
       d[Base + 4 + (start[i] + k)] = Encode(es[i])[k]

-----------------------------------------------------------------------------
(* A client's datagram *)

(* The sequence of bytes d starts with h. *)
StartsWith(d, h) ==
  /\ h \in Seq(Byte)
  /\ d \in Seq(Byte)
  /\ Len(h) <= Len(d)
  /\ \A k \in 1 .. Len(h) : d[k] = h[k]

(* A hardware address is six bytes. *)
LEMMA SixAreBytes ==
  ASSUME NEW x \in [1 .. 6 -> Byte]
  PROVE  x \in Seq(Byte) /\ Len(x) = 6
<1>1. PICK n \in Nat : n = 6
  OBVIOUS
<1>2. x \in [1 .. n -> Byte]
  BY <1>1
<1>3. x \in Seq(Byte) /\ Len(x) = n
  BY <1>2
<1>4. QED
  BY <1>1, <1>3

(* The fields of a message a client sends, as bytes. *)
LEMMA MessageFields ==
  ASSUME NEW m \in Messages
  PROVE  /\ m.op \in Byte /\ m.htype \in Byte /\ m.hlen \in Byte /\ m.hops \in Byte
         /\ m.xid \in Seq(Byte) /\ Len(m.xid) = 4
         /\ m.ciaddr \in Seq(Byte) /\ Len(m.ciaddr) = 4
         /\ m.chaddr \in Seq(Byte)
         /\ m.chaddr = <<>> => Len(m.chaddr) = 0 /\ m.cookie = <<>>
         /\ m.chaddr # <<>> => Len(m.chaddr) = 6
         /\ m.cookie \in Seq(Byte)
         /\ m.cookie = <<>> => Len(m.cookie) = 0 /\ m.entries = <<>>
         /\ m.cookie # <<>> => Len(m.cookie) = 4
         /\ m.entries \in Seq(Entries)
         /\ m.tail \in Seq(Byte)
         /\ m.cookie = <<>> => m.tail = <<>>
         /\ m.tail # <<>> => BreaksOff(m.tail)
<1>1. /\ m.op \in Byte /\ m.htype \in Byte /\ m.hlen \in Byte /\ m.hops \in Byte
      /\ m.xid \in FourBytes /\ m.ciaddr \in FourBytes
      /\ m.chaddr \in {<<>>} \cup [1 .. 6 -> Byte]
      /\ m.cookie \in {<<>>} \cup FourBytes
      /\ m.entries \in Seq(Entries)
      /\ m.chaddr = <<>> => m.cookie = <<>>
      /\ m.cookie = <<>> => m.entries = <<>>
      /\ m.tail \in Seq(Byte)
      /\ m.cookie = <<>> => m.tail = <<>>
      /\ m.tail # <<>> => BreaksOff(m.tail)
  BY DEF Messages
<1>2. m.xid \in Seq(Byte) /\ Len(m.xid) = 4 /\ m.ciaddr \in Seq(Byte) /\ Len(m.ciaddr) = 4
  BY <1>1, FourAreBytes
<1>3. /\ m.chaddr \in Seq(Byte)
      /\ m.chaddr = <<>> => Len(m.chaddr) = 0
      /\ m.chaddr # <<>> => Len(m.chaddr) = 6
  <2>1. CASE m.chaddr = <<>>
    <3>1. PICK c : c = m.chaddr
      OBVIOUS
    <3>2. c \in Seq(Byte) /\ Len(c) = 0
      BY <2>1, <3>1
    <3>3. QED
      BY <2>1, <3>1, <3>2
  <2>2. CASE m.chaddr \in [1 .. 6 -> Byte] /\ m.chaddr # <<>>
    <3>1. PICK c \in [1 .. 6 -> Byte] : c = m.chaddr
      BY <2>2
    <3>2. c \in Seq(Byte) /\ Len(c) = 6
      BY SixAreBytes
    <3>3. QED
      BY <2>2, <3>1, <3>2
  <2>3. QED
    BY <1>1, <2>1, <2>2
<1>4. /\ m.cookie \in Seq(Byte)
      /\ m.cookie = <<>> => Len(m.cookie) = 0
      /\ m.cookie # <<>> => Len(m.cookie) = 4
  <2>1. CASE m.cookie = <<>>
    <3>1. PICK c : c = m.cookie
      OBVIOUS
    <3>2. c \in Seq(Byte) /\ Len(c) = 0
      BY <2>1, <3>1
    <3>3. QED
      BY <2>1, <3>1, <3>2
  <2>2. CASE m.cookie \in FourBytes /\ m.cookie # <<>>
    BY <2>2, FourAreBytes
  <2>3. QED
    BY <1>1, <2>1, <2>2
<1>5. QED
  BY <1>1, <1>2, <1>3, <1>4

(* One more part. *)
LEMMA NextPart ==
  ASSUME NEW h \in Seq(Byte), NEW x \in Seq(Byte)
  PROVE  /\ h \o x \in Seq(Byte)
         /\ Len(h \o x) = Len(h) + Len(x)
         /\ StartsWith(h \o x, h)
         /\ SubSeq(h \o x, Len(h) + 1, Len(h) + Len(x)) = x
<1>1. PICK a \in Nat, n \in Nat : a = Len(h) /\ n = Len(x)
  BY LenProperties
<1>2. PICK d : d = h \o x
  OBVIOUS
<1>3. /\ d \in Seq(Byte) /\ Len(d) = a + n
      /\ \A k \in 1 .. a : d[k] = h[k]
      /\ \A k \in 1 .. n : d[a + k] = x[k]
  <2>1. /\ h \o x \in Seq(Byte)
        /\ Len(h \o x) = Len(h) + Len(x)
        /\ \A k \in 1 .. Len(h) : (h \o x)[k] = h[k]
        /\ \A k \in 1 .. Len(x) : (h \o x)[Len(h) + k] = x[k]
    BY Join
  <2>2. QED
    BY <1>1, <1>2, <2>1
<1>4. SubSeq(d, a + 1, a + n) = x
  <2>1. a + Len(x) <= Len(d) /\ \A k \in 1 .. Len(x) : d[a + k] = x[k]
    BY <1>1, <1>3
  <2>2. SubSeq(d, a + 1, a + Len(x)) = x
    BY <1>3, <2>1, Part
  <2>3. QED
    BY <1>1, <2>2
<1>5. a <= a + n
  OBVIOUS
<1>6. QED
  BY <1>1, <1>2, <1>3, <1>4, <1>5 DEF StartsWith

(* Entries written after the cookie lie behind it. *)
LEMMA PlacedAfter ==
  ASSUME NEW h \in Seq(Byte), Len(h) = Base + 4, NEW es \in Seq(Entries), NEW t \in Seq(Byte),
         NEW start, Layout(start, Encoded(es), t), NEW tail \in Seq(Byte)
  PROVE  /\ h \o t \o tail \in Seq(Byte)
         /\ Placed(h \o t \o tail, es, start, tail)
<1>1. PICK n \in Nat : n = Len(es)
  BY LenProperties
<1>2. PICK b \in Nat : b = Base + 4
  BY BaseLength
<1>3. PICK l \in Nat, r \in Nat : l = Len(t) /\ r = Len(tail)
  BY LenProperties
<1>4. PICK c, d : c = h \o t /\ d = c \o tail
  OBVIOUS
<1>5. /\ d \in Seq(Byte)
      /\ Len(d) = b + l + r
      /\ \A k \in 1 .. l : d[b + k] = t[k]
      /\ SubSeq(d, b + l + 1, b + l + r) = tail
  <2>1. b = Len(h)
    BY <1>2
  <2>2. /\ h \o t \in Seq(Byte)
        /\ Len(h \o t) = Len(h) + Len(t)
        /\ \A k \in 1 .. Len(t) : (h \o t)[Len(h) + k] = t[k]
    BY Join
  <2>3. /\ c \in Seq(Byte)
        /\ Len(c) = b + l
        /\ \A k \in 1 .. l : c[b + k] = t[k]
    BY <1>3, <1>4, <2>1, <2>2, Zenon
  <2>4. /\ c \o tail \in Seq(Byte)
        /\ Len(c \o tail) = Len(c) + Len(tail)
        /\ StartsWith(c \o tail, c)
        /\ SubSeq(c \o tail, Len(c) + 1, Len(c) + Len(tail)) = tail
    BY <2>3, NextPart
  <2>5. /\ d \in Seq(Byte)
        /\ Len(d) = (b + l) + r
        /\ StartsWith(d, c)
        /\ SubSeq(d, (b + l) + 1, (b + l) + r) = tail
    BY <1>3, <1>4, <2>3, <2>4, Zenon
  <2>6. ASSUME NEW k \in 1 .. l PROVE d[b + k] = t[k]
    <3>1. b + k \in 1 .. Len(c)
      BY <2>3
    <3>2. d[b + k] = c[b + k]
      BY <2>5, <3>1 DEF StartsWith
    <3>3. QED
      BY <2>3, <3>2
  <2>7. QED
    BY <2>5, <2>6
<1>6. Len(Encoded(es)) = n /\ \A i \in 1 .. n : Encoded(es)[i] = Encode(es[i])
  BY <1>1, EncodedBytes
<1>7. /\ start \in [1 .. n + 1 -> Nat]
      /\ start[1] = 0
      /\ \A i \in 1 .. n : start[i + 1] = start[i] + Len(Encode(es[i]))
      /\ \A i \in 1 .. n + 1 : start[i] <= l
      /\ l = start[n + 1]
      /\ \A i \in 1 .. n : \A k \in 1 .. Len(Encode(es[i])) : t[start[i] + k] = Encode(es[i])[k]
  BY <1>3, <1>6, SMTT(30) DEF Layout
<1>8. ASSUME NEW i \in 1 .. n, NEW k \in 1 .. Len(Encode(es[i]))
      PROVE  d[b + (start[i] + k)] = Encode(es[i])[k]
  <2>1. PICK x \in Nat, y \in Nat, z \in Nat :
           x = start[i] /\ y = start[i + 1] /\ z = Len(Encode(es[i]))
    <3>1. es[i] \in Entries
      BY <1>1, ElementOfSeq
    <3>2. Encode(es[i]) \in Seq(Byte)
      BY <3>1, EncodeBytes
    <3>3. Len(Encode(es[i])) \in Nat
      BY <3>2, LenProperties
    <3>4. i \in 1 .. n + 1 /\ i + 1 \in 1 .. n + 1
      OBVIOUS
    <3>5. start[i] \in Nat /\ start[i + 1] \in Nat
      BY <1>7, <3>4
    <3>6. QED
      BY <3>3, <3>5
  <2>2. y = x + z /\ y <= l /\ k \in 1 .. z
    BY <1>7, <2>1
  <2>3. x + k \in 1 .. l
    BY <2>2
  <2>4. d[b + (x + k)] = t[x + k]
    BY <1>5, <2>3
  <2>5. t[start[i] + k] = Encode(es[i])[k]
    BY <1>7
  <2>6. QED
    BY <2>1, <2>4, <2>5
<1>9. Placed(d, es, start, tail)
  <2>1. PICK last \in Nat : last = start[n + 1] /\ last = l
    BY <1>7
  <2>2. b + last <= Len(d)
    BY <1>5, <2>1
  <2>3. SubSeq(d, b + last + 1, Len(d)) = tail
    BY <1>5, <2>1
  <2>4. /\ Base + 4 + start[Len(es) + 1] <= Len(d)
        /\ SubSeq(d, Base + 4 + start[Len(es) + 1] + 1, Len(d)) = tail
    BY <1>1, <1>2, <2>1, <2>2, <2>3
  <2>5. \A i \in 1 .. n + 1 : start[i] <= start[n + 1]
    BY <1>7
  <2>6. QED
    BY <1>1, <1>2, <1>7, <1>8, <2>4, <2>5 DEF Placed
<1>10. QED
  BY <1>4, <1>5, <1>9

(* A start of a start is a start. *)
LEMMA StillStartsWith ==
  ASSUME NEW c, NEW d, NEW h, StartsWith(c, d), StartsWith(d, h)
  PROVE  StartsWith(c, h)
<1>1. PICK x \in Nat, y \in Nat, z \in Nat : x = Len(h) /\ y = Len(d) /\ z = Len(c)
  BY LenProperties DEF StartsWith
<1>2. x <= y /\ y <= z /\ x <= z
  BY <1>1 DEF StartsWith
<1>3. ASSUME NEW k \in 1 .. x PROVE c[k] = h[k]
  <2>1. k \in 1 .. y
    BY <1>2
  <2>2. d[k] = h[k]
    BY <1>1 DEF StartsWith
  <2>3. c[k] = d[k]
    BY <1>1, <2>1 DEF StartsWith
  <2>4. QED
    BY <2>2, <2>3
<1>4. QED
  BY <1>1, <1>2, <1>3 DEF StartsWith

(* What lies in the first bytes lies in all that start with them. *)
LEMMA SamePart ==
  ASSUME NEW d, NEW h, StartsWith(d, h),
         NEW i \in Nat \ {0}, NEW j \in Nat, i <= j, j <= Len(h)
  PROVE  SubSeq(d, i, j) = SubSeq(h, i, j)
<1>1. PICK a \in Nat, n \in Nat : a = i - 1 /\ n = j - i + 1
  OBVIOUS
<1>2. i = a + 1 /\ j = a + n
  BY <1>1
<1>3. PICK x, y : x = SubSeq(h, a + 1, a + n) /\ y = SubSeq(d, a + 1, a + n)
  OBVIOUS
<1>4. d \in Seq(Byte) /\ h \in Seq(Byte)
  BY DEF StartsWith
<1>5. PICK l \in Nat, m \in Nat : l = Len(h) /\ m = Len(d)
  BY <1>4, LenProperties
<1>6. a + n <= l /\ l <= m
  BY <1>2, <1>5 DEF StartsWith
<1>7. a + n <= Len(h) /\ a + n <= Len(d)
  BY <1>5, <1>6
<1>8. x \in Seq(Byte) /\ Len(x) = n /\ \A k \in 1 .. n : x[k] = h[a + k]
  BY <1>3, <1>4, <1>7, ByteSub
<1>9. y \in Seq(Byte) /\ Len(y) = n /\ \A k \in 1 .. n : y[k] = d[a + k]
  BY <1>3, <1>4, <1>7, ByteSub
<1>10. \A k \in 1 .. n : a + k \in 1 .. l
  BY <1>6
<1>11. \A k \in 1 .. n : d[a + k] = h[a + k]
  BY <1>5, <1>10 DEF StartsWith
<1>12. x = y
  BY <1>8, <1>9, <1>11, SeqEqual
<1>13. QED
  BY <1>2, <1>3, <1>12

(* The datagram of a message of a client. *)
LEMMA DatagramLayout ==
  ASSUME NEW m \in Messages
  PROVE  /\ Datagram(m) \in Seq(Byte)
         /\ m.chaddr = <<>> => Len(Datagram(m)) < Base
         /\ m.chaddr # <<>> =>
              /\ Len(Datagram(m)) >= Base
              /\ Datagram(m)[2] = m.htype
              /\ SubSeq(Datagram(m), 5, 8) = m.xid
              /\ SubSeq(Datagram(m), 29, 34) = m.chaddr
              /\ m.cookie = <<>> => Len(Datagram(m)) = Base
              /\ m.cookie # <<>> =>
                   /\ SubSeq(Datagram(m), Base + 1, Base + 4) = m.cookie
                   /\ \E start : Placed(Datagram(m), m.entries, start, m.tail)
<1>1. PICK c \in Nat, z \in Nat : c = Len(m.chaddr) /\ z = SnameLength + FileLength
  <2>1. m.chaddr \in Seq(Byte)
    BY MessageFields
  <2>2. Len(m.chaddr) \in Nat
    BY <2>1, LenProperties
  <2>3. SnameLength + FileLength \in Nat
    BY LengthsAssumption
  <2>4. QED
    BY <2>2, <2>3
<1>2. Base = 44 + z /\ (m.chaddr = <<>> => c = 0) /\ (m.chaddr # <<>> => c = 6)
  BY <1>1, MessageFields, BaseLength, LengthsAssumption
<1>3. PICK h1 : h1 = <<m.op, m.htype, m.hlen, m.hops>>
  OBVIOUS
<1>4. h1 \in Seq(Byte) /\ Len(h1) = 4 /\ h1[2] = m.htype
  BY <1>3, MessageFields
<1>5. PICK h2 : h2 = h1 \o m.xid
  OBVIOUS
<1>6. h2 \in Seq(Byte) /\ Len(h2) = 8 /\ StartsWith(h2, h1)
      /\ SubSeq(h2, Len(h1) + 1, Len(h1) + Len(m.xid)) = m.xid
  <2>1. PICK x : x = m.xid
    OBVIOUS
  <2>2. x \in Seq(Byte) /\ Len(x) = 4
    BY <1>1, <2>1, MessageFields
  <2>3. h2 = h1 \o x
    BY <1>5, <2>1
  <2>4. /\ h2 \in Seq(Byte)
        /\ Len(h2) = Len(h1) + Len(x)
        /\ StartsWith(h2, h1)
        /\ SubSeq(h2, Len(h1) + 1, Len(h1) + Len(x)) = x
    BY <1>4, <2>2, <2>3, NextPart
  <2>5. Len(h2) = 8
    BY <1>4, <2>2, <2>4
  <2>6. QED
    BY <2>1, <2>4, <2>5
<1>7. PICK h3 : h3 = h2 \o Zeros(4)
  OBVIOUS
<1>8. h3 \in Seq(Byte) /\ Len(h3) = 12 /\ StartsWith(h3, h2)
  <2>1. PICK x : x = Zeros(4)
    OBVIOUS
  <2>2. x \in Seq(Byte) /\ Len(x) = 4
    BY <1>1, <2>1, ZerosAreBytes
  <2>3. h3 = h2 \o x
    BY <1>7, <2>1
  <2>4. /\ h3 \in Seq(Byte)
        /\ Len(h3) = Len(h2) + Len(x)
        /\ StartsWith(h3, h2)
        /\ SubSeq(h3, Len(h2) + 1, Len(h2) + Len(x)) = x
    BY <1>6, <2>2, <2>3, NextPart
  <2>5. Len(h3) = 12
    BY <1>6, <2>2, <2>4
  <2>6. QED
    BY <2>1, <2>4, <2>5
<1>9. PICK h4 : h4 = h3 \o m.ciaddr
  OBVIOUS
<1>10. h4 \in Seq(Byte) /\ Len(h4) = 16 /\ StartsWith(h4, h3)
  <2>1. PICK x : x = m.ciaddr
    OBVIOUS
  <2>2. x \in Seq(Byte) /\ Len(x) = 4
    BY <1>1, <2>1, MessageFields
  <2>3. h4 = h3 \o x
    BY <1>9, <2>1
  <2>4. /\ h4 \in Seq(Byte)
        /\ Len(h4) = Len(h3) + Len(x)
        /\ StartsWith(h4, h3)
        /\ SubSeq(h4, Len(h3) + 1, Len(h3) + Len(x)) = x
    BY <1>8, <2>2, <2>3, NextPart
  <2>5. Len(h4) = 16
    BY <1>8, <2>2, <2>4
  <2>6. QED
    BY <2>1, <2>4, <2>5
<1>11. PICK h5 : h5 = h4 \o Zeros(12)
  OBVIOUS
<1>12. h5 \in Seq(Byte) /\ Len(h5) = 28 /\ StartsWith(h5, h4)
  <2>1. PICK x : x = Zeros(12)
    OBVIOUS
  <2>2. x \in Seq(Byte) /\ Len(x) = 12
    BY <1>1, <2>1, ZerosAreBytes
  <2>3. h5 = h4 \o x
    BY <1>11, <2>1
  <2>4. /\ h5 \in Seq(Byte)
        /\ Len(h5) = Len(h4) + Len(x)
        /\ StartsWith(h5, h4)
        /\ SubSeq(h5, Len(h4) + 1, Len(h4) + Len(x)) = x
    BY <1>10, <2>2, <2>3, NextPart
  <2>5. Len(h5) = 28
    BY <1>10, <2>2, <2>4
  <2>6. QED
    BY <2>1, <2>4, <2>5
<1>13. PICK h6 : h6 = h5 \o m.chaddr
  OBVIOUS
<1>14. h6 \in Seq(Byte) /\ Len(h6) = 28 + c /\ StartsWith(h6, h5)
      /\ SubSeq(h6, Len(h5) + 1, Len(h5) + Len(m.chaddr)) = m.chaddr
  <2>1. PICK x : x = m.chaddr
    OBVIOUS
  <2>2. x \in Seq(Byte) /\ Len(x) = c
    BY <1>1, <2>1, MessageFields
  <2>3. h6 = h5 \o x
    BY <1>13, <2>1
  <2>4. /\ h6 \in Seq(Byte)
        /\ Len(h6) = Len(h5) + Len(x)
        /\ StartsWith(h6, h5)
        /\ SubSeq(h6, Len(h5) + 1, Len(h5) + Len(x)) = x
    BY <1>12, <2>2, <2>3, NextPart
  <2>5. Len(h6) = 28 + c
    BY <1>12, <2>2, <2>4
  <2>6. QED
    BY <2>1, <2>4, <2>5
<1>15. PICK h7 : h7 = h6 \o Zeros(10)
  OBVIOUS
<1>16. h7 \in Seq(Byte) /\ Len(h7) = 38 + c /\ StartsWith(h7, h6)
  <2>1. PICK x : x = Zeros(10)
    OBVIOUS
  <2>2. x \in Seq(Byte) /\ Len(x) = 10
    BY <1>1, <2>1, ZerosAreBytes
  <2>3. h7 = h6 \o x
    BY <1>15, <2>1
  <2>4. /\ h7 \in Seq(Byte)
        /\ Len(h7) = Len(h6) + Len(x)
        /\ StartsWith(h7, h6)
        /\ SubSeq(h7, Len(h6) + 1, Len(h6) + Len(x)) = x
    BY <1>14, <2>2, <2>3, NextPart
  <2>5. Len(h7) = 38 + c
    BY <1>14, <2>2, <2>4
  <2>6. QED
    BY <2>1, <2>4, <2>5
<1>17. PICK h8 : h8 = h7 \o Zeros(SnameLength + FileLength)
  OBVIOUS
<1>18. h8 \in Seq(Byte) /\ Len(h8) = 38 + c + z /\ StartsWith(h8, h7)
  <2>1. PICK x : x = Zeros(SnameLength + FileLength)
    OBVIOUS
  <2>2. x \in Seq(Byte) /\ Len(x) = z
    BY <1>1, <2>1, ZerosAreBytes
  <2>3. h8 = h7 \o x
    BY <1>17, <2>1
  <2>4. /\ h8 \in Seq(Byte)
        /\ Len(h8) = Len(h7) + Len(x)
        /\ StartsWith(h8, h7)
        /\ SubSeq(h8, Len(h7) + 1, Len(h7) + Len(x)) = x
    BY <1>16, <2>2, <2>3, NextPart
  <2>5. Len(h8) = 38 + c + z
    BY <1>16, <2>2, <2>4
  <2>6. QED
    BY <2>1, <2>4, <2>5
<1>19. PICK t : t = EncodeAll(m.entries)
  OBVIOUS
<1>20. /\ t \in Seq(Byte)
       /\ \E start : Layout(start, Encoded(m.entries), t)
       /\ m.entries = <<>> => t = <<>>
  <2>1. t = FlattenSeq(Encoded(m.entries))
    BY <1>19 DEF EncodeAll, Encoded
  <2>2. m.entries \in Seq(Entries)
    BY MessageFields
  <2>3. Encoded(m.entries) \in Seq(Seq(Byte))
    BY <2>2, EncodedBytes
  <2>4. m.entries = <<>> => Encoded(m.entries) = <<>>
    BY DEF Encoded
  <2>5. QED
    BY <2>1, <2>3, <2>4, FlattenLayout, FlattenNone
<1>21. PICK h9 : h9 = h8 \o m.cookie
  OBVIOUS
<1>22. /\ h9 \in Seq(Byte) /\ Len(h9) = 38 + c + z + Len(m.cookie) /\ StartsWith(h9, h8)
       /\ SubSeq(h9, Len(h8) + 1, Len(h8) + Len(m.cookie)) = m.cookie
  <2>1. m.cookie \in Seq(Byte)
    BY MessageFields
  <2>2. /\ h9 \in Seq(Byte) /\ Len(h9) = Len(h8) + Len(m.cookie) /\ StartsWith(h9, h8)
        /\ SubSeq(h9, Len(h8) + 1, Len(h8) + Len(m.cookie)) = m.cookie
    BY <1>18, <1>21, <2>1, NextPart
  <2>3. QED
    BY <1>18, <2>2
<1>23. PICK c9, d : c9 = h9 \o t /\ d = c9 \o m.tail
  OBVIOUS
<1>24. d = Datagram(m)
  BY <1>3, <1>5, <1>7, <1>9, <1>11, <1>13, <1>15, <1>17, <1>19, <1>21, <1>23 DEF Datagram
<1>25. d \in Seq(Byte) /\ Len(d) = Len(h9) + Len(t) + Len(m.tail) /\ StartsWith(d, h9)
  <2>1. c9 \in Seq(Byte) /\ Len(c9) = Len(h9) + Len(t) /\ StartsWith(c9, h9)
    BY <1>20, <1>22, <1>23, NextPart
  <2>2. m.tail \in Seq(Byte)
    BY MessageFields
  <2>3. d \in Seq(Byte) /\ Len(d) = Len(c9) + Len(m.tail) /\ StartsWith(d, c9)
    BY <1>23, <2>1, <2>2, NextPart
  <2>4. StartsWith(d, h9)
    BY <2>1, <2>3, StillStartsWith
  <2>5. QED
    BY <2>1, <2>3, <2>4
<1>26. StartsWith(d, h8)
  BY <1>22, <1>25, StillStartsWith
<1>27. StartsWith(d, h6)
  <2>1. StartsWith(d, h7)
    BY <1>18, <1>26, StillStartsWith
  <2>2. QED
    BY <1>16, <2>1, StillStartsWith
<1>28. StartsWith(d, h2)
  <2>1. StartsWith(d, h5)
    BY <1>14, <1>27, StillStartsWith
  <2>2. StartsWith(d, h4)
    BY <1>12, <2>1, StillStartsWith
  <2>3. StartsWith(d, h3)
    BY <1>10, <2>2, StillStartsWith
  <2>4. QED
    BY <1>8, <2>3, StillStartsWith
<1>29. StartsWith(d, h1)
  BY <1>6, <1>28, StillStartsWith
<1>30. d[2] = m.htype
  BY <1>4, <1>29 DEF StartsWith
<1>31. SubSeq(d, 5, 8) = m.xid
  <2>1. Len(h1) + 1 = 5 /\ Len(h1) + Len(m.xid) = 8
    <3>1. Len(m.xid) = 4
      BY MessageFields
    <3>2. QED
      BY <1>4, <3>1
  <2>2. SubSeq(h2, 5, 8) = m.xid
    BY <1>6, <2>1
  <2>3. Len(h2) = 8
    BY <1>6
  <2>4. SubSeq(d, 5, 8) = SubSeq(h2, 5, 8)
    <3>1. PICK i \in Nat \ {0}, j \in Nat : i = 5 /\ j = 8
      OBVIOUS
    <3>2. i <= j /\ j <= Len(h2)
      BY <2>3, <3>1
    <3>3. SubSeq(d, i, j) = SubSeq(h2, i, j)
      BY <1>28, <3>2, SamePart
    <3>4. QED
      BY <3>1, <3>3
  <2>5. QED
    BY <2>2, <2>4
<1>32. CASE m.chaddr = <<>>
  <2>1. Len(m.cookie) = 0 /\ Len(t) = 0 /\ Len(m.tail) = 0 /\ c = 0
    BY <1>2, <1>20, <1>32, MessageFields, EmptySeq
  <2>2. Len(d) = 38 + z
    BY <1>22, <1>25, <2>1
  <2>3. Len(d) < Base
    BY <1>2, <2>2
  <2>4. QED
    BY <1>24, <1>25, <1>32, <2>3
<1>33. CASE m.chaddr # <<>>
  <2>1. c = 6 /\ Len(h8) = Base
    BY <1>2, <1>18, <1>33
  <2>2. SubSeq(d, 29, 34) = m.chaddr
    <3>1. Len(h5) + 1 = 29 /\ Len(h5) + Len(m.chaddr) = 34
      BY <1>1, <1>12, <2>1
    <3>2. SubSeq(h6, 29, 34) = m.chaddr
      BY <1>14, <3>1
    <3>3. Len(h6) = 34
      BY <1>14, <2>1
    <3>4. SubSeq(d, 29, 34) = SubSeq(h6, 29, 34)
      BY <1>27, <3>3, SamePart
    <3>5. QED
      BY <3>2, <3>4
  <2>3. Len(d) >= Base
    BY <1>26, <2>1 DEF StartsWith
  <2>4. ASSUME m.cookie = <<>> PROVE Len(d) = Base
    <3>1. Len(m.cookie) = 0 /\ Len(t) = 0 /\ Len(m.tail) = 0
      BY <1>20, <2>4, MessageFields, EmptySeq
    <3>2. QED
      BY <1>2, <1>22, <1>25, <2>1, <3>1
  <2>5. ASSUME m.cookie # <<>>
        PROVE  /\ SubSeq(d, Base + 1, Base + 4) = m.cookie
               /\ \E start : Placed(d, m.entries, start, m.tail)
    <3>1. Len(m.cookie) = 4 /\ Len(h9) = Base + 4
      <4>1. Len(m.cookie) = 4
        BY <2>5, MessageFields
      <4>2. Len(h9) = 38 + 6 + z + 4
        BY <1>22, <2>1, <4>1
      <4>3. QED
        BY <1>2, <4>1, <4>2
    <3>2. SubSeq(h9, Base + 1, Base + 4) = m.cookie
      BY <1>22, <2>1, <3>1
    <3>3. SubSeq(d, Base + 1, Base + 4) = SubSeq(h9, Base + 1, Base + 4)
      <4>1. Base + 1 \in Nat \ {0} /\ Base + 4 \in Nat /\ Base + 1 <= Base + 4 /\ Base + 4 <= Len(h9)
        BY <3>1, BaseLength
      <4>2. QED
        BY <1>25, <4>1, SamePart
    <3>4. PICK start : Layout(start, Encoded(m.entries), t)
      BY <1>20
    <3>5. m.entries \in Seq(Entries) /\ m.tail \in Seq(Byte)
      BY MessageFields
    <3>6. Placed(d, m.entries, start, m.tail)
      BY <1>20, <1>22, <1>23, <3>1, <3>4, <3>5, PlacedAfter
    <3>7. QED
      BY <3>2, <3>3, <3>6
  <2>6. QED
    BY <1>24, <1>25, <1>30, <1>31, <1>33, <2>2, <2>3, <2>4, <2>5
<1>34. QED
  BY <1>32, <1>33

-----------------------------------------------------------------------------
(* The server's answer *)

(* The entries of an answer as the client gets them. *)
LeaseTimeOnTheWay == IF LittleEndian THEN Reverse(LeaseTime) ELSE LeaseTime

(* The mask of make_offer and make_acknowledge. *)
Mask == <<255, 255, 255, 0>>

(* Their router. *)
Router == <<172, 18, 1, 1>>

(* The codes of an answer, the end among them. *)
WireCode(i) ==
  IF i = 1 THEN 53 ELSE IF i = 2 THEN 1 ELSE IF i = 3 THEN 3 ELSE IF i = 4 THEN 51 ELSE 255

(* What the client finds behind each of them: the lease time is written    *)
(* in the order of the host.                                               *)
WirePayload(type, i) ==
  IF i = 1 THEN <<type>>
  ELSE IF i = 2 THEN Mask
  ELSE IF i = 3 THEN Router
  ELSE IF i = 4 THEN LeaseTimeOnTheWay
  ELSE <<>>

(* An answer, as entries a client could have sent. *)
WireEntries(type) ==
  [ i \in 1 .. 5 |-> [code |-> WireCode(i), payload |-> WirePayload(type, i)] ]

(* The types of an answer. *)
AnswerTypes == {DHCPOFFER, DHCPACK}

(* A type is one byte the constraint of option 53 allows. *)
LEMMA TypeIsByte ==
  ASSUME NEW type \in AnswerTypes
  PROVE  type \in Byte /\ type \in 1 .. 8
BY DEF AnswerTypes, DHCPOFFER, DHCPACK, Byte

(* The lease time is four bytes in either order. *)
LEMMA LeaseTimeBytes ==
  /\ LeaseTime \in Seq(Byte) /\ Len(LeaseTime) = 4
  /\ LeaseTimeOnTheWay \in Seq(Byte) /\ Len(LeaseTimeOnTheWay) = 4
<1>1. LeaseTime \in Seq(Byte) /\ Len(LeaseTime) = 4
  BY DEF LeaseTime, Byte
<1>2. QED
  BY <1>1, Reversed DEF LeaseTimeOnTheWay

(* What the server's option i is made from. *)
LEMMA ReplyEntry ==
  ASSUME NEW type, NEW i \in 1 .. 4
  PROVE  /\ ReplyEntries(type)[i].code = WireCode(i)
         /\ ReplyEntries(type)[i].payload = IF i = 4 THEN LeaseTime ELSE WirePayload(type, i)
<1>1. PICK p1, p2, p3 : p1 = <<type>> /\ p2 = Mask /\ p3 = Router
  OBVIOUS
<1>2. PICK r : r = << Entry(53, p1), Entry(1, p2), Entry(3, p3), Entry(51, LeaseTime) >>
  OBVIOUS
<1>3. ReplyEntries(type) = r
  BY <1>1, <1>2, Zenon DEF ReplyEntries, Mask, Router
<1>4. /\ r[1] = Entry(53, p1) /\ r[2] = Entry(1, p2)
      /\ r[3] = Entry(3, p3) /\ r[4] = Entry(51, LeaseTime)
  BY <1>2
<1>5. i = 1 \/ i = 2 \/ i = 3 \/ i = 4
  OBVIOUS
<1>6. r[i].code = WireCode(i)
  BY <1>4, <1>5 DEF Entry, WireCode
<1>7. r[i].payload = IF i = 4 THEN LeaseTime ELSE WirePayload(type, i)
  BY <1>1, <1>4, <1>5 DEF Entry, WirePayload
<1>8. QED
  BY <1>3, <1>6, <1>7

(* The types of the four options. *)
LEMMA WireTypes ==
  ASSUME NEW i \in 1 .. 4
  PROVE  /\ WireCode(i) \in Known \ {0, 255}
         /\ PayloadType(WireCode(i)) \notin Whole
         /\ PayloadType(WireCode(i)) \notin {"FLAG", "NONE", "BYTE_ARRAY"}
         /\ PayloadType(WireCode(i)) \in Multibyte <=> i = 4
         /\ Size(WireCode(i)) = IF i = 1 THEN 1 ELSE 4
<1>1. i = 1 \/ i = 2 \/ i = 3 \/ i = 4
  OBVIOUS
<1>2. WireCode(i) \in Known \ {0, 255}
  BY <1>1, KnownCodes DEF WireCode
<1>3. PayloadType(WireCode(i)) = TypeOf(WireCode(i))
  BY <1>2, KnownType
<1>4. TypeOf(WireCode(i)) = IF i = 1 THEN "UINT_ENUM" ELSE IF i = 2 THEN "SUBNET_MASK"
                            ELSE IF i = 3 THEN "IP_ADDRESS" ELSE "UINT_32"
  BY <1>1 DEF TypeOf, WireCode
<1>5. QED
  BY <1>1, <1>2, <1>3, <1>4
     DEF Size, get_one_element_payload_length_in_bytes, Whole, Multibyte

(* The payloads of an answer. *)
LEMMA WireBytes ==
  ASSUME NEW type \in AnswerTypes, NEW i \in 1 .. 5
  PROVE  /\ WirePayload(type, i) \in Seq(Byte)
         /\ Len(WirePayload(type, i)) = IF i = 1 THEN 1 ELSE IF i = 5 THEN 0 ELSE 4
         /\ i = 5 => WirePayload(type, i) = <<>>
         /\ WireCode(i) \in Byte
         /\ WireCode(i) \in {0, 255} <=> i = 5
<1>1. i = 1 \/ i = 2 \/ i = 3 \/ i = 4 \/ i = 5
  OBVIOUS
<1>2. WireCode(i) \in Byte /\ (WireCode(i) \in {0, 255} <=> i = 5)
  BY <1>1 DEF WireCode, Byte
<1>3. Mask \in Seq(Byte) /\ Len(Mask) = 4
  BY DEF Mask, Byte
<1>4. Router \in Seq(Byte) /\ Len(Router) = 4
  BY DEF Router, Byte
<1>5. PICK p : p = <<type>>
  OBVIOUS
<1>6. p \in Seq(Byte) /\ Len(p) = 1
  BY <1>5, TypeIsByte
<1>7. PICK q : q = <<>>
  OBVIOUS
<1>8. q \in Seq(Byte) /\ Len(q) = 0
  BY <1>7
<1>9. /\ WirePayload(type, 1) = p /\ WirePayload(type, 2) = Mask /\ WirePayload(type, 3) = Router
      /\ WirePayload(type, 4) = LeaseTimeOnTheWay /\ WirePayload(type, 5) = q
  BY <1>5, <1>7 DEF WirePayload
<1>10. PICK x : x = WirePayload(type, i)
  OBVIOUS
<1>11. x \in Seq(Byte) /\ Len(x) = (IF i = 1 THEN 1 ELSE IF i = 5 THEN 0 ELSE 4)
  <2>1. CASE i = 1
    <3>1. x = p
      BY <1>9, <1>10, <2>1
    <3>2. QED
      BY <1>6, <2>1, <3>1
  <2>2. CASE i = 2
    <3>1. x = Mask
      BY <1>9, <1>10, <2>2
    <3>2. QED
      BY <1>3, <2>2, <3>1
  <2>3. CASE i = 3
    <3>1. x = Router
      BY <1>9, <1>10, <2>3
    <3>2. QED
      BY <1>4, <2>3, <3>1
  <2>4. CASE i = 4
    <3>1. x = LeaseTimeOnTheWay
      BY <1>9, <1>10, <2>4
    <3>2. QED
      BY <2>4, <3>1, LeaseTimeBytes
  <2>5. CASE i = 5
    <3>1. x = q
      BY <1>9, <1>10, <2>5
    <3>2. QED
      BY <1>8, <2>5, <3>1
  <2>6. QED
    BY <1>1, <2>1, <2>2, <2>3, <2>4, <2>5
<1>12. i = 5 => WirePayload(type, i) = <<>>
  BY <1>7, <1>9
<1>13. QED
  BY <1>2, <1>10, <1>11, <1>12

(* They are entries. *)
LEMMA WireEntriesType ==
  ASSUME NEW type \in AnswerTypes
  PROVE  /\ WireEntries(type) \in Seq(Entries)
         /\ Len(WireEntries(type)) = 5
         /\ \A i \in 1 .. 5 : /\ WireEntries(type)[i].code = WireCode(i)
                              /\ WireEntries(type)[i].payload = WirePayload(type, i)
<1>1. ASSUME NEW i \in 1 .. 5
      PROVE  [code |-> WireCode(i), payload |-> WirePayload(type, i)] \in Entries
  <2>1. PICK c, p : c = WireCode(i) /\ p = WirePayload(type, i)
    OBVIOUS
  <2>2. /\ p \in Seq(Byte) /\ Len(p) <= 255 /\ c \in Byte
        /\ c \in {0, 255} => p = <<>>
    <3>1. /\ p \in Seq(Byte) /\ c \in Byte
          /\ Len(p) = IF i = 1 THEN 1 ELSE IF i = 5 THEN 0 ELSE 4
      BY <2>1, WireBytes
    <3>2. c \in {0, 255} => p = <<>>
      BY <2>1, WireBytes
    <3>3. Len(p) <= 255
      BY <3>1
    <3>4. QED
      BY <3>1, <3>2, <3>3
  <2>3. HasWholeElements(c, p)
    <3>1. CASE i = 5
      <4>1. c \notin ListCodes
        BY <2>1, <3>1 DEF WireCode, ListCodes
      <4>2. QED
        BY <4>1 DEF HasWholeElements
    <3>2. CASE i = 1
      <4>1. c \notin ListCodes
        BY <2>1, <3>2 DEF WireCode, ListCodes
      <4>2. QED
        BY <4>1 DEF HasWholeElements
    <3>3. CASE i # 1 /\ i # 5
      <4>1. Len(p) = 4 /\ Size(c) = 4
        BY <2>1, <3>3, WireBytes, WireTypes
      <4>2. Len(p) % Size(c) = 0
        BY <4>1
      <4>3. QED
        BY <4>2 DEF HasWholeElements, Size
    <3>4. QED
      BY <3>1, <3>2, <3>3
  <2>4. [code |-> c, payload |-> p] \in Entries
    BY <2>2, <2>3 DEF Entries
  <2>5. QED
    BY <2>1, <2>4
<1>2. PICK n \in Nat : n = 5
  OBVIOUS
<1>3. PICK w : w = WireEntries(type)
  OBVIOUS
<1>4. w \in [1 .. n -> Entries]
  BY <1>1, <1>2, <1>3 DEF WireEntries
<1>5. w \in Seq(Entries) /\ Len(w) = n
  BY <1>4
<1>6. \A i \in 1 .. 5 : w[i].code = WireCode(i) /\ w[i].payload = WirePayload(type, i)
  BY <1>3 DEF WireEntries
<1>7. QED
  BY <1>2, <1>3, <1>5, <1>6

(* The client's parser accepts all of them. *)
LEMMA WireAccepted ==
  ASSUME NEW type \in AnswerTypes, NEW i \in 1 .. 4
  PROVE  Accepts(WireCode(i), WirePayload(type, i))
<1>1. PICK c, p : c = WireCode(i) /\ p = WirePayload(type, i)
  OBVIOUS
<1>2. /\ c \in Known \ {0, 255}
      /\ PayloadType(c) \notin Whole
      /\ PayloadType(c) \notin {"FLAG", "NONE", "BYTE_ARRAY"}
      /\ Size(c) = IF i = 1 THEN 1 ELSE 4
  BY <1>1, WireTypes
<1>3. p \in Seq(Byte) /\ Len(p) = Size(c)
  <2>1. i \in 1 .. 5 /\ i # 5
    OBVIOUS
  <2>2. p \in Seq(Byte) /\ Len(p) = IF i = 1 THEN 1 ELSE 4
    BY <1>1, <2>1, WireBytes
  <2>3. QED
    BY <1>2, <2>2
<1>4. DOMAIN real_values(c, p) = {1} /\ real_values(c, p)[1].bytes = p
  <2>1. c \in Known \ {0, 255}
    BY <1>2
  <2>2. PayloadType(c) \notin Whole
    BY <1>2
  <2>3. PayloadType(c) # "FLAG"
    BY <1>2
  <2>4. p \in Seq(Byte)
    BY <1>3
  <2>5. Len(p) = Size(c)
    BY <1>3
  <2>6. QED
    BY <2>1, <2>2, <2>3, <2>4, <2>5, OneValue, Zenon
<1>5. c \in DOMAIN int_constraint => Number(p) \in int_constraint[c]
  <2>1. CASE i = 1
    <3>1. c = 53 /\ p = <<type>>
      BY <1>1, <2>1 DEF WireCode, WirePayload
    <3>2. int_constraint[53] = 1 .. 8
      BY DEF int_constraint
    <3>3. Number(p) = type
      BY <3>1 DEF Number
    <3>4. QED
      BY <3>1, <3>2, <3>3, TypeIsByte
  <2>2. CASE i # 1
    <3>1. i = 2 \/ i = 3 \/ i = 4
      BY <2>2
    <3>2. c = 1 \/ c = 3 \/ c = 51
      BY <1>1, <3>1 DEF WireCode
    <3>3. DOMAIN int_constraint = {22, 23, 26, 37, 46, 52, 53, 57}
      BY DEF int_constraint
    <3>4. QED
      BY <3>2, <3>3
  <2>3. QED
    BY <2>1, <2>2
<1>6. \A v \in DOMAIN real_values(c, p) : is_correct_uint(c, real_values(c, p)[v])
  BY <1>4, <1>5 DEF is_correct_uint
<1>7. Accepts(c, p)
  BY <1>2, <1>3, <1>6 DEF Accepts, Size
<1>8. QED
  BY <1>1, <1>7

(* The four options as they are written. *)
LEMMA ReplyWritten ==
  ASSUME NEW type \in AnswerTypes, NEW i \in 1 .. 4
  PROVE  option_to_network_data(Option(ReplyEntries(type)[i].code, ReplyEntries(type)[i].payload))
           = Encode(WireEntries(type)[i])
<1>1. PICK c, p, w : /\ c = WireCode(i) /\ p = ReplyEntries(type)[i].payload
                     /\ w = WirePayload(type, i)
  OBVIOUS
<1>2. i \in 1 .. 5 /\ i # 5
  OBVIOUS
<1>3. p = IF i = 4 THEN LeaseTime ELSE w
  BY <1>1, ReplyEntry
<1>4. /\ c \in Known \ {0, 255}
      /\ PayloadType(c) \notin Whole
      /\ PayloadType(c) # "FLAG"
      /\ PayloadType(c) \in Multibyte <=> i = 4
      /\ Size(c) = IF i = 1 THEN 1 ELSE 4
  BY <1>1, WireTypes
<1>5. w \in Seq(Byte) /\ Len(w) = Size(c)
  <2>1. w \in Seq(Byte) /\ Len(w) = IF i = 1 THEN 1 ELSE IF i = 5 THEN 0 ELSE 4
    BY <1>1, <1>2, WireBytes
  <2>2. Len(w) = IF i = 1 THEN 1 ELSE 4
    BY <1>2, <2>1
  <2>3. Size(c) = IF i = 1 THEN 1 ELSE 4
    BY <1>4
  <2>4. Len(w) = Size(c)
    BY <2>2, <2>3
  <2>5. QED
    BY <2>1, <2>4
<1>6. p \in Seq(Byte) /\ Len(p) = Size(c)
  <2>1. CASE i = 4
    <3>1. p = LeaseTime /\ Size(c) = 4
      BY <1>3, <1>4, <2>1
    <3>2. QED
      BY <3>1, LeaseTimeBytes
  <2>2. CASE i # 4
    <3>1. p = w
      BY <1>3, <2>2
    <3>2. QED
      BY <1>5, <3>1
  <2>3. QED
    BY <2>1, <2>2
<1>7. option_to_network_data(Option(c, p)) =
        <<c, Len(p)>> \o (IF PayloadType(c) \in Multibyte /\ LittleEndian
                          THEN Reverse(p) ELSE p)
  BY <1>4, <1>6, WrittenValue, ZenonT(30)
<1>8. (IF PayloadType(c) \in Multibyte /\ LittleEndian THEN Reverse(p) ELSE p) = w
  <2>1. CASE i = 4
    <3>1. w = LeaseTimeOnTheWay
      BY <1>1, <2>1 DEF WirePayload
    <3>2. p = LeaseTime
      BY <1>3, <2>1
    <3>3. QED
      BY <1>4, <2>1, <3>1, <3>2 DEF LeaseTimeOnTheWay
  <2>2. CASE i # 4
    BY <1>3, <1>4, <2>2
  <2>3. QED
    BY <2>1, <2>2
<1>9. PICK e : e = WireEntries(type)[i]
  OBVIOUS
<1>10. e.code = c /\ e.payload = w
  BY <1>1, <1>2, <1>9, WireEntriesType
<1>11. Encode(e) = <<c, Len(w)>> \o w
  BY <1>4, <1>10 DEF Encode
<1>12. ReplyEntries(type)[i].code = c
  BY <1>1, ReplyEntry
<1>13. QED
  BY <1>1, <1>5, <1>6, <1>7, <1>8, <1>9, <1>11, <1>12

-----------------------------------------------------------------------------
(* The bytes of the answer *)

(* One more part at the end of a layout. *)
LEMMA LayoutLast ==
  ASSUME NEW S, NEW s \in Seq(Seq(S)), NEW t \in Seq(S), NEW x \in Seq(S),
         NEW start, Layout(start, s, t)
  PROVE  \E later : Layout(later, Append(s, x), t \o x)
<1>1. PICK n \in Nat, l \in Nat, c \in Nat : n = Len(s) /\ l = Len(t) /\ c = Len(x)
  BY LenProperties
<1>2. PICK r, u : r = Append(s, x) /\ u = t \o x
  OBVIOUS
<1>3. /\ Len(r) = n + 1
      /\ \A i \in 1 .. n : r[i] = s[i]
      /\ r[n + 1] = x
  BY <1>1, <1>2, AppendProperties
<1>4. /\ Len(u) = l + c
      /\ \A k \in 1 .. l : u[k] = t[k]
      /\ \A k \in 1 .. c : u[l + k] = x[k]
  <2>1. /\ Len(u) = Len(t) + Len(x)
        /\ \A k \in 1 .. Len(t) + Len(x) :
             u[k] = IF k <= Len(t) THEN t[k] ELSE x[k - Len(t)]
    BY <1>2, ConcatProperties
  <2>2. /\ Len(u) = l + c
        /\ \A k \in 1 .. l + c : u[k] = IF k <= l THEN t[k] ELSE x[k - l]
    BY <1>1, <2>1
  <2>3. ASSUME NEW k \in 1 .. c PROVE u[l + k] = x[k]
    <3>1. l + k \in 1 .. l + c /\ ~(l + k <= l) /\ l + k - l = k
      OBVIOUS
    <3>2. QED
      BY <2>2, <3>1
  <2>4. \A k \in 1 .. l : u[k] = t[k]
    BY <2>2
  <2>5. QED
    BY <2>2, <2>3, <2>4
<1>5. /\ start \in [1 .. n + 1 -> Nat] /\ start[1] = 0
      /\ \A i \in 1 .. n : start[i + 1] = start[i] + Len(s[i])
      /\ \A i \in 1 .. n + 1 : start[i] <= l
      /\ l = start[n + 1]
      /\ \A i \in 1 .. n : \A k \in 1 .. Len(s[i]) : t[start[i] + k] = s[i][k]
  BY <1>1 DEF Layout
<1>6. PICK f : f = [i \in 1 .. n + 2 |-> IF i = n + 2 THEN l + c ELSE start[i]]
  OBVIOUS
<1>7. f \in [1 .. n + 2 -> Nat] /\ f[1] = 0
  BY <1>5, <1>6
<1>8. /\ \A i \in 1 .. n + 1 : f[i] = start[i]
      /\ f[n + 2] = l + c
  BY <1>6
<1>9. ASSUME NEW i \in 1 .. n + 1
      PROVE  /\ f[i + 1] = f[i] + Len(r[i])
             /\ \A k \in 1 .. Len(r[i]) : u[f[i] + k] = r[i][k]
  <2>1. CASE i = n + 1
    <3>1. f[i] = l /\ f[i + 1] = l + c /\ r[i] = x
      BY <1>3, <1>5, <1>8, <2>1
    <3>2. QED
      BY <1>1, <1>4, <3>1
  <2>2. CASE i \in 1 .. n
    <3>1. i + 1 \in 1 .. n + 1
      BY <2>2
    <3>2. f[i] = start[i] /\ f[i + 1] = start[i + 1] /\ r[i] = s[i]
      BY <1>3, <1>8, <2>2, <3>1
    <3>3. f[i + 1] = f[i] + Len(r[i])
      BY <1>5, <2>2, <3>2
    <3>4. ASSUME NEW k \in 1 .. Len(s[i]) PROVE u[start[i] + k] = s[i][k]
      <4>1. t[start[i] + k] = s[i][k]
        BY <1>5, <2>2
      <4>2. s[i] \in Seq(S)
        BY <1>1, <2>2, ElementOfSeq
      <4>3. PICK q \in Nat, g \in Nat : q = Len(s[i]) /\ g = start[i]
        BY <1>5, <4>2, LenProperties
      <4>4. g + q <= l
        BY <1>5, <2>2, <3>1, <4>3
      <4>5. k \in 1 .. q
        BY <4>3
      <4>6. g + k \in 1 .. l
        BY <4>4, <4>5
      <4>7. QED
        BY <1>4, <4>1, <4>3, <4>6
    <3>5. QED
      BY <3>2, <3>3, <3>4
  <2>3. QED
    BY <2>1, <2>2
<1>10. \A i \in 1 .. n + 2 : f[i] <= l + c
  <2>1. ASSUME NEW i \in 1 .. n + 1 PROVE f[i] <= l + c
    <3>1. f[i] \in Nat /\ f[i] <= l
      BY <1>5, <1>8
    <3>2. QED
      BY <3>1
  <2>2. QED
    BY <1>8, <2>1
<1>11. Len(r) + 1 = n + 2
  BY <1>3
<1>12. Layout(f, r, u)
  BY <1>3, <1>4, <1>7, <1>8, <1>9, <1>10, <1>11 DEF Layout
<1>13. QED
  BY <1>2, <1>12

(* The options of an answer, and its end. *)
WrittenOptions(options) ==
  FlattenSeq([ i \in DOMAIN options |-> option_to_network_data(options[i]) ])

(* The options of an answer are written as the entries, up to the end. *)
LEMMA AnswerOptions ==
  ASSUME NEW type \in AnswerTypes, NEW options,
         options = [ i \in 1 .. 4 |->
                       Option(ReplyEntries(type)[i].code, ReplyEntries(type)[i].payload) ]
  PROVE  /\ options # <<>>
         /\ \E t \in Seq(Byte) : \E start :
              /\ WrittenOptions(options) = t
              /\ t \o <<255>> \in Seq(Byte)
              /\ Layout(start, Encoded(WireEntries(type)), t \o <<255>>)
<1>1. PICK es : es = WireEntries(type)
  OBVIOUS
<1>2. es \in Seq(Entries) /\ Len(es) = 5
  BY <1>1, WireEntriesType
<1>3. PICK s : s = [ i \in 1 .. 4 |-> Encode(es[i]) ]
  OBVIOUS
<1>4. [ i \in DOMAIN options |-> option_to_network_data(options[i]) ] = s
  <2>1. ASSUME NEW i \in 1 .. 4 PROVE option_to_network_data(options[i]) = Encode(es[i])
    <3>1. options[i] = Option(ReplyEntries(type)[i].code, ReplyEntries(type)[i].payload)
      OBVIOUS
    <3>2. QED
      BY <1>1, <3>1, ReplyWritten
  <2>2. DOMAIN options = 1 .. 4
    OBVIOUS
  <2>3. QED
    BY <1>3, <2>1, <2>2
<1>5. /\ Encoded(es) \in Seq(Seq(Byte)) /\ Len(Encoded(es)) = 5
      /\ \A i \in 1 .. 5 : Encoded(es)[i] = Encode(es[i])
  BY <1>2, EncodedBytes
<1>6. PICK B : B = Seq(Byte)
  OBVIOUS
<1>7. \A i \in 1 .. 5 : Encode(es[i]) \in B
  BY <1>5, <1>6, ElementOfSeq
<1>8. PICK n \in Nat : n = 4
  OBVIOUS
<1>9. s \in [1 .. n -> B]
  BY <1>3, <1>7, <1>8
<1>10. s \in Seq(B) /\ Len(s) = 4
  <2>1. s \in Seq(B) /\ Len(s) = n
    BY <1>9
  <2>2. QED
    BY <1>8, <2>1
<1>11. PICK x : x = <<255>>
  OBVIOUS
<1>12. Encode(es[5]) = x
  <2>1. es[5].code = 255
    BY <1>1, WireEntriesType DEF WireCode
  <2>2. QED
    BY <1>11, <2>1 DEF Encode
<1>13. x \in B
  BY <1>7, <1>12
<1>14. Encoded(es) = Append(s, x)
  <2>1. PICK r : r = Append(s, x)
    OBVIOUS
  <2>2. /\ r \in Seq(B) /\ Len(r) = 5
        /\ \A i \in 1 .. 4 : r[i] = s[i]
        /\ r[5] = x
    <3>1. /\ r \in Seq(B) /\ Len(r) = Len(s) + 1
          /\ \A i \in 1 .. Len(s) : r[i] = s[i]
          /\ r[Len(s) + 1] = x
      <4>1. /\ Append(s, x) \in Seq(B) /\ Len(Append(s, x)) = Len(s) + 1
            /\ \A i \in 1 .. Len(s) : Append(s, x)[i] = s[i]
            /\ Append(s, x)[Len(s) + 1] = x
        <5>1. s \in Seq(B) /\ x \in B
          BY <1>10, <1>13
        <5>2. QED
          BY <5>1, AppendProperties
      <4>2. QED
        BY <2>1, <4>1, Zenon
    <3>2. Len(s) + 1 = 5
      BY <1>10
    <3>3. QED
      BY <1>10, <3>1, <3>2
  <2>3. \A i \in 1 .. 5 : r[i] = Encoded(es)[i]
    <3>1. ASSUME NEW i \in 1 .. 4 PROVE r[i] = Encoded(es)[i]
      BY <1>3, <1>5, <2>2
    <3>2. r[5] = Encoded(es)[5]
      BY <1>5, <1>12, <2>2
    <3>3. QED
      BY <3>1, <3>2
  <2>4. Encoded(es) = r
    BY <1>5, <1>6, <2>2, <2>3, SeqEqual
  <2>5. QED
    BY <2>1, <2>4
<1>15. PICK t : t = FlattenSeq(s)
  OBVIOUS
<1>16. t \in Seq(Byte) /\ \E start : Layout(start, s, t)
  BY <1>6, <1>10, <1>15, FlattenLayout
<1>17. \E start : Layout(start, Encoded(es), t \o x)
  BY <1>6, <1>10, <1>13, <1>14, <1>16, LayoutLast
<1>18. t \o x \in Seq(Byte)
  BY <1>6, <1>13, <1>16, Join
<1>19. options # <<>>
  <2>1. DOMAIN options = 1 .. 4
    OBVIOUS
  <2>2. QED
    BY <2>1
<1>20. QED
  BY <1>1, <1>4, <1>11, <1>15, <1>16, <1>17, <1>18, <1>19 DEF WrittenOptions

(* The bytes of an answer. *)
AnswerIs(d, type, ip, xid, chaddr) ==
  /\ d \in Seq(Byte)
  /\ Len(d) >= Base + 4
  /\ d[1] = 2 /\ d[2] = 1
  /\ SubSeq(d, 5, 8) = xid
  /\ SubSeq(d, 17, 20) = ip
  /\ SubSeq(d, 29, 34) = chaddr
  /\ SubSeq(d, Base + 1, Base + 4) = MagicCookie
  /\ \E start : Placed(d, WireEntries(type), start, <<>>)

(* The fields of an answer, as bytes. *)
LEMMA ReplyFields ==
  ASSUME NEW type \in AnswerTypes, NEW ip \in FourBytes,
         message.xid \in Seq(Byte), Len(message.xid) = 4,
         message.chaddr \in Seq(Byte), Len(message.chaddr) = 6
  PROVE  \E m :
           /\ m = make_reply(type, ip)
           /\ m.op = 2 /\ m.htype = 1 /\ m.hlen \in Byte /\ m.hops \in Byte
           /\ m.xid = message.xid /\ m.yiaddr = ip /\ m.chaddr = message.chaddr
           /\ m.xid \in Seq(Byte) /\ Len(m.xid) = 4
           /\ m.secs \in Seq(Byte) /\ Len(m.secs) = 2
           /\ m.flags \in Seq(Byte) /\ Len(m.flags) = 2
           /\ m.ciaddr \in Seq(Byte) /\ Len(m.ciaddr) = 4
           /\ m.yiaddr \in Seq(Byte) /\ Len(m.yiaddr) = 4
           /\ m.siaddr \in Seq(Byte) /\ Len(m.siaddr) = 4
           /\ m.giaddr \in Seq(Byte) /\ Len(m.giaddr) = 4
           /\ m.chaddr \in Seq(Byte) /\ Len(m.chaddr) = 6
           /\ m.options = [ i \in 1 .. 4 |->
                Option(ReplyEntries(type)[i].code, ReplyEntries(type)[i].payload) ]
<1>1. PICK z2, z4, r, o :
        /\ z2 = Zeros(2) /\ z4 = Zeros(4) /\ r = <<172, 18, 1, 1>>
        /\ o = [ i \in 1 .. 4 |->
                   Option(ReplyEntries(type)[i].code, ReplyEntries(type)[i].payload) ]
  OBVIOUS
<1>2. z2 \in Seq(Byte) /\ Len(z2) = 2 /\ z4 \in Seq(Byte) /\ Len(z4) = 4
  BY <1>1, ZerosAreBytes
<1>3. r \in Seq(Byte) /\ Len(r) = 4
  BY <1>1 DEF Byte
<1>4. ip \in Seq(Byte) /\ Len(ip) = 4
  BY FourAreBytes
<1>5. PICK m : m = make_reply(type, ip)
  OBVIOUS
<1>6. /\ m = [EmptyMessage EXCEPT !.op = 2, !.xid = message.xid, !.yiaddr = ip,
                !.siaddr = r, !.chaddr = message.chaddr, !.options = o]
      /\ EmptyMessage =
           [op |-> 1, htype |-> 1, hlen |-> 6, hops |-> 0, xid |-> z4, secs |-> z2,
            flags |-> z2, ciaddr |-> z4, yiaddr |-> z4, siaddr |-> z4,
            giaddr |-> z4, chaddr |-> <<>>, options |-> <<>>]
  <2>1. m = [EmptyMessage EXCEPT !.op = 2, !.xid = message.xid, !.yiaddr = ip,
                !.siaddr = r, !.chaddr = message.chaddr, !.options = o]
    BY <1>1, <1>5, Zenon DEF make_reply
  <2>2. EmptyMessage =
           [op |-> 1, htype |-> 1, hlen |-> 6, hops |-> 0, xid |-> z4, secs |-> z2,
            flags |-> z2, ciaddr |-> z4, yiaddr |-> z4, siaddr |-> z4,
            giaddr |-> z4, chaddr |-> <<>>, options |-> <<>>]
    BY <1>1, Zenon DEF EmptyMessage
  <2>3. QED
    BY <2>1, <2>2
<1>7. 6 \in Byte /\ 0 \in Byte
  BY DEF Byte
<1>8. /\ m.op = 2 /\ m.htype = 1 /\ m.hlen = 6 /\ m.hops = 0
      /\ m.xid = message.xid /\ m.secs = z2 /\ m.flags = z2 /\ m.ciaddr = z4
      /\ m.yiaddr = ip /\ m.siaddr = r /\ m.giaddr = z4 /\ m.chaddr = message.chaddr
      /\ m.options = o
  BY <1>6
<1>9. /\ m.hlen \in Byte /\ m.hops \in Byte
      /\ m.xid \in Seq(Byte) /\ Len(m.xid) = 4
      /\ m.secs \in Seq(Byte) /\ Len(m.secs) = 2
      /\ m.flags \in Seq(Byte) /\ Len(m.flags) = 2
      /\ m.ciaddr \in Seq(Byte) /\ Len(m.ciaddr) = 4
  BY <1>2, <1>7, <1>8
<1>10. /\ m.yiaddr \in Seq(Byte) /\ Len(m.yiaddr) = 4
       /\ m.siaddr \in Seq(Byte) /\ Len(m.siaddr) = 4
       /\ m.giaddr \in Seq(Byte) /\ Len(m.giaddr) = 4
       /\ m.chaddr \in Seq(Byte) /\ Len(m.chaddr) = 6
  BY <1>2, <1>3, <1>4, <1>8
<1>11. m.options = [ i \in 1 .. 4 |->
          Option(ReplyEntries(type)[i].code, ReplyEntries(type)[i].payload) ]
  BY <1>1, <1>8, Zenon
<1>12. m.op = 2 /\ m.htype = 1 /\ m.xid = message.xid /\ m.yiaddr = ip
       /\ m.chaddr = message.chaddr
  BY <1>8
<1> WITNESS m
<1>13. QED
  BY <1>5, <1>9, <1>10, <1>11, <1>12, Zenon

(* Where the fields and the entries of an answer lie. *)
LEMMA ReplyLayout ==
  ASSUME NEW type \in AnswerTypes, NEW ip \in FourBytes,
         message.xid \in Seq(Byte), Len(message.xid) = 4,
         message.chaddr \in Seq(Byte), Len(message.chaddr) = 6
  PROVE  AnswerIs(to_network_data(make_reply(type, ip)), type, ip, message.xid, message.chaddr)
<1>1. PICK m :
        /\ m = make_reply(type, ip)
        /\ m.op = 2 /\ m.htype = 1 /\ m.hlen \in Byte /\ m.hops \in Byte
        /\ m.xid = message.xid /\ m.yiaddr = ip /\ m.chaddr = message.chaddr
        /\ m.xid \in Seq(Byte) /\ Len(m.xid) = 4
        /\ m.secs \in Seq(Byte) /\ Len(m.secs) = 2
        /\ m.flags \in Seq(Byte) /\ Len(m.flags) = 2
        /\ m.ciaddr \in Seq(Byte) /\ Len(m.ciaddr) = 4
        /\ m.yiaddr \in Seq(Byte) /\ Len(m.yiaddr) = 4
        /\ m.siaddr \in Seq(Byte) /\ Len(m.siaddr) = 4
        /\ m.giaddr \in Seq(Byte) /\ Len(m.giaddr) = 4
        /\ m.chaddr \in Seq(Byte) /\ Len(m.chaddr) = 6
        /\ m.options = [ i \in 1 .. 4 |->
             Option(ReplyEntries(type)[i].code, ReplyEntries(type)[i].payload) ]
  BY ReplyFields
<1>2. PICK z \in Nat : z = SnameLength + FileLength /\ Base = 44 + z
  BY BaseLength, LengthsAssumption
<1>3. PICK h1 : h1 = <<m.op, m.htype, m.hlen, m.hops>>
  OBVIOUS
<1>4. h1 \in Seq(Byte) /\ Len(h1) = 4 /\ h1[1] = 2 /\ h1[2] = 1
  <2>1. 2 \in Byte /\ 1 \in Byte
    BY DEF Byte
  <2>2. QED
    BY <1>1, <1>3, <2>1
<1>5. PICK h2 : h2 = h1 \o m.xid
  OBVIOUS
<1>6. h2 \in Seq(Byte) /\ Len(h2) = 8 /\ StartsWith(h2, h1)
      /\ SubSeq(h2, 5, 8) = m.xid
  <2>1. PICK x : x = m.xid
    OBVIOUS
  <2>2. x \in Seq(Byte) /\ Len(x) = 4
    BY <2>1, <1>1
  <2>3. h2 = h1 \o x
    BY <1>5, <2>1
  <2>4. /\ h2 \in Seq(Byte)
        /\ Len(h2) = Len(h1) + Len(x)
        /\ StartsWith(h2, h1)
        /\ SubSeq(h2, Len(h1) + 1, Len(h1) + Len(x)) = x
    BY <1>4, <2>2, <2>3, NextPart
  <2>5. Len(h2) = 8
    BY <1>4, <2>2, <2>4
  <2>6. Len(h1) + 1 = 5 /\ Len(h1) + Len(x) = 8
    BY <1>4, <2>2
  <2>7. SubSeq(h2, 5, 8) = x
    BY <2>4, <2>6
  <2>8. QED
    BY <2>1, <2>4, <2>5, <2>7
<1>7. PICK h3 : h3 = h2 \o m.secs
  OBVIOUS
<1>8. h3 \in Seq(Byte) /\ Len(h3) = 10 /\ StartsWith(h3, h2)
  <2>1. PICK x : x = m.secs
    OBVIOUS
  <2>2. x \in Seq(Byte) /\ Len(x) = 2
    BY <2>1, <1>1
  <2>3. h3 = h2 \o x
    BY <1>7, <2>1
  <2>4. /\ h3 \in Seq(Byte)
        /\ Len(h3) = Len(h2) + Len(x)
        /\ StartsWith(h3, h2)
        /\ SubSeq(h3, Len(h2) + 1, Len(h2) + Len(x)) = x
    BY <1>6, <2>2, <2>3, NextPart
  <2>5. Len(h3) = 10
    BY <1>6, <2>2, <2>4
  <2>6. QED
    BY <2>4, <2>5
<1>9. PICK h4 : h4 = h3 \o m.flags
  OBVIOUS
<1>10. h4 \in Seq(Byte) /\ Len(h4) = 12 /\ StartsWith(h4, h3)
  <2>1. PICK x : x = m.flags
    OBVIOUS
  <2>2. x \in Seq(Byte) /\ Len(x) = 2
    BY <2>1, <1>1
  <2>3. h4 = h3 \o x
    BY <1>9, <2>1
  <2>4. /\ h4 \in Seq(Byte)
        /\ Len(h4) = Len(h3) + Len(x)
        /\ StartsWith(h4, h3)
        /\ SubSeq(h4, Len(h3) + 1, Len(h3) + Len(x)) = x
    BY <1>8, <2>2, <2>3, NextPart
  <2>5. Len(h4) = 12
    BY <1>8, <2>2, <2>4
  <2>6. QED
    BY <2>4, <2>5
<1>11. PICK h5 : h5 = h4 \o m.ciaddr
  OBVIOUS
<1>12. h5 \in Seq(Byte) /\ Len(h5) = 16 /\ StartsWith(h5, h4)
  <2>1. PICK x : x = m.ciaddr
    OBVIOUS
  <2>2. x \in Seq(Byte) /\ Len(x) = 4
    BY <2>1, <1>1
  <2>3. h5 = h4 \o x
    BY <1>11, <2>1
  <2>4. /\ h5 \in Seq(Byte)
        /\ Len(h5) = Len(h4) + Len(x)
        /\ StartsWith(h5, h4)
        /\ SubSeq(h5, Len(h4) + 1, Len(h4) + Len(x)) = x
    BY <1>10, <2>2, <2>3, NextPart
  <2>5. Len(h5) = 16
    BY <1>10, <2>2, <2>4
  <2>6. QED
    BY <2>4, <2>5
<1>13. PICK h6 : h6 = h5 \o m.yiaddr
  OBVIOUS
<1>14. h6 \in Seq(Byte) /\ Len(h6) = 20 /\ StartsWith(h6, h5)
      /\ SubSeq(h6, 17, 20) = m.yiaddr
  <2>1. PICK x : x = m.yiaddr
    OBVIOUS
  <2>2. x \in Seq(Byte) /\ Len(x) = 4
    BY <2>1, <1>1
  <2>3. h6 = h5 \o x
    BY <1>13, <2>1
  <2>4. /\ h6 \in Seq(Byte)
        /\ Len(h6) = Len(h5) + Len(x)
        /\ StartsWith(h6, h5)
        /\ SubSeq(h6, Len(h5) + 1, Len(h5) + Len(x)) = x
    BY <1>12, <2>2, <2>3, NextPart
  <2>5. Len(h6) = 20
    BY <1>12, <2>2, <2>4
  <2>6. Len(h5) + 1 = 17 /\ Len(h5) + Len(x) = 20
    BY <1>12, <2>2
  <2>7. SubSeq(h6, 17, 20) = x
    BY <2>4, <2>6
  <2>8. QED
    BY <2>1, <2>4, <2>5, <2>7
<1>15. PICK h7 : h7 = h6 \o m.siaddr
  OBVIOUS
<1>16. h7 \in Seq(Byte) /\ Len(h7) = 24 /\ StartsWith(h7, h6)
  <2>1. PICK x : x = m.siaddr
    OBVIOUS
  <2>2. x \in Seq(Byte) /\ Len(x) = 4
    BY <2>1, <1>1
  <2>3. h7 = h6 \o x
    BY <1>15, <2>1
  <2>4. /\ h7 \in Seq(Byte)
        /\ Len(h7) = Len(h6) + Len(x)
        /\ StartsWith(h7, h6)
        /\ SubSeq(h7, Len(h6) + 1, Len(h6) + Len(x)) = x
    BY <1>14, <2>2, <2>3, NextPart
  <2>5. Len(h7) = 24
    BY <1>14, <2>2, <2>4
  <2>6. QED
    BY <2>4, <2>5
<1>17. PICK h8 : h8 = h7 \o m.giaddr
  OBVIOUS
<1>18. h8 \in Seq(Byte) /\ Len(h8) = 28 /\ StartsWith(h8, h7)
  <2>1. PICK x : x = m.giaddr
    OBVIOUS
  <2>2. x \in Seq(Byte) /\ Len(x) = 4
    BY <2>1, <1>1
  <2>3. h8 = h7 \o x
    BY <1>17, <2>1
  <2>4. /\ h8 \in Seq(Byte)
        /\ Len(h8) = Len(h7) + Len(x)
        /\ StartsWith(h8, h7)
        /\ SubSeq(h8, Len(h7) + 1, Len(h7) + Len(x)) = x
    BY <1>16, <2>2, <2>3, NextPart
  <2>5. Len(h8) = 28
    BY <1>16, <2>2, <2>4
  <2>6. QED
    BY <2>4, <2>5
<1>19. PICK h9 : h9 = h8 \o m.chaddr
  OBVIOUS
<1>20. h9 \in Seq(Byte) /\ Len(h9) = 34 /\ StartsWith(h9, h8)
      /\ SubSeq(h9, 29, 34) = m.chaddr
  <2>1. PICK x : x = m.chaddr
    OBVIOUS
  <2>2. x \in Seq(Byte) /\ Len(x) = 6
    BY <2>1, <1>1
  <2>3. h9 = h8 \o x
    BY <1>19, <2>1
  <2>4. /\ h9 \in Seq(Byte)
        /\ Len(h9) = Len(h8) + Len(x)
        /\ StartsWith(h9, h8)
        /\ SubSeq(h9, Len(h8) + 1, Len(h8) + Len(x)) = x
    BY <1>18, <2>2, <2>3, NextPart
  <2>5. Len(h9) = 34
    BY <1>18, <2>2, <2>4
  <2>6. Len(h8) + 1 = 29 /\ Len(h8) + Len(x) = 34
    BY <1>18, <2>2
  <2>7. SubSeq(h9, 29, 34) = x
    BY <2>4, <2>6
  <2>8. QED
    BY <2>1, <2>4, <2>5, <2>7
<1>21. PICK h10 : h10 = h9 \o Zeros(10)
  OBVIOUS
<1>22. h10 \in Seq(Byte) /\ Len(h10) = 44 /\ StartsWith(h10, h9)
  <2>1. PICK x : x = Zeros(10)
    OBVIOUS
  <2>2. x \in Seq(Byte) /\ Len(x) = 10
    BY <2>1, <1>2, ZerosAreBytes
  <2>3. h10 = h9 \o x
    BY <1>21, <2>1
  <2>4. /\ h10 \in Seq(Byte)
        /\ Len(h10) = Len(h9) + Len(x)
        /\ StartsWith(h10, h9)
        /\ SubSeq(h10, Len(h9) + 1, Len(h9) + Len(x)) = x
    BY <1>20, <2>2, <2>3, NextPart
  <2>5. Len(h10) = 44
    BY <1>20, <2>2, <2>4
  <2>6. QED
    BY <2>4, <2>5
<1>23. PICK h11 : h11 = h10 \o Zeros(SnameLength + FileLength)
  OBVIOUS
<1>24. h11 \in Seq(Byte) /\ Len(h11) = 44 + z /\ StartsWith(h11, h10)
  <2>1. PICK x : x = Zeros(SnameLength + FileLength)
    OBVIOUS
  <2>2. x \in Seq(Byte) /\ Len(x) = z
    BY <2>1, <1>2, ZerosAreBytes
  <2>3. h11 = h10 \o x
    BY <1>23, <2>1
  <2>4. /\ h11 \in Seq(Byte)
        /\ Len(h11) = Len(h10) + Len(x)
        /\ StartsWith(h11, h10)
        /\ SubSeq(h11, Len(h10) + 1, Len(h10) + Len(x)) = x
    BY <1>22, <2>2, <2>3, NextPart
  <2>5. Len(h11) = 44 + z
    BY <1>22, <2>2, <2>4
  <2>6. QED
    BY <2>4, <2>5
<1>a. /\ m.options # <<>>
      /\ \E t \in Seq(Byte) : \E start :
           /\ WrittenOptions(m.options) = t
           /\ t \o <<255>> \in Seq(Byte)
           /\ Layout(start, Encoded(WireEntries(type)), t \o <<255>>)
  <2>1. PICK o : o = m.options
    OBVIOUS
  <2>2. o = [ i \in 1 .. 4 |->
                Option(ReplyEntries(type)[i].code, ReplyEntries(type)[i].payload) ]
    BY <1>1, <2>1
  <2>3. /\ o # <<>>
        /\ \E t \in Seq(Byte) : \E start :
              /\ WrittenOptions(o) = t
              /\ t \o <<255>> \in Seq(Byte)
              /\ Layout(start, Encoded(WireEntries(type)), t \o <<255>>)
    BY <2>2, AnswerOptions, ZenonT(30)
  <2>4. QED
    BY <2>1, <2>3
<1>b. PICK t \in Seq(Byte) : \E start :
         /\ WrittenOptions(m.options) = t
         /\ t \o <<255>> \in Seq(Byte)
         /\ Layout(start, Encoded(WireEntries(type)), t \o <<255>>)
  BY <1>a
<1>25. PICK start :
         /\ WrittenOptions(m.options) = t
         /\ t \o <<255>> \in Seq(Byte)
         /\ Layout(start, Encoded(WireEntries(type)), t \o <<255>>)
         /\ m.options # <<>>
  BY <1>a, <1>b
<1>26. PICK e : e = <<255>>
  OBVIOUS
<1>27. e \in Seq(Byte)
  BY <1>26 DEF Byte
<1>28. MagicCookie \in Seq(Byte) /\ Len(MagicCookie) = 4
  BY DEF MagicCookie, Byte
<1>29. PICK d : d = to_network_data(m)
  OBVIOUS
<1>30. d = h11 \o ((MagicCookie \o t) \o e)
  <2>1. PICK o : o = WrittenOptions(m.options)
    OBVIOUS
  <2>2. o = t
    BY <1>25, <2>1
  <2>3. d = h11 \o (IF m.options = <<>> THEN <<>> ELSE (MagicCookie \o o) \o e)
    BY <1>3, <1>5, <1>7, <1>9, <1>11, <1>13, <1>15, <1>17, <1>19, <1>21, <1>23, <1>26,
       <1>29, <2>1, Zenon DEF to_network_data, WrittenOptions
  <2>4. QED
    BY <1>25, <2>2, <2>3
<1>31. PICK h12 : h12 = h11 \o MagicCookie
  OBVIOUS
<1>32. h12 \in Seq(Byte) /\ Len(h12) = Base + 4 /\ StartsWith(h12, h11)
      /\ SubSeq(h12, Base + 1, Base + 4) = MagicCookie
  <2>1. PICK x : x = MagicCookie
    OBVIOUS
  <2>2. x \in Seq(Byte) /\ Len(x) = 4
    BY <1>28, <2>1
  <2>3. h12 = h11 \o x
    BY <1>31, <2>1
  <2>4. /\ h12 \in Seq(Byte)
        /\ Len(h12) = Len(h11) + Len(x)
        /\ StartsWith(h12, h11)
        /\ SubSeq(h12, Len(h11) + 1, Len(h11) + Len(x)) = x
    BY <1>24, <2>2, <2>3, NextPart
  <2>5. Len(h11) = Base
    BY <1>2, <1>24
  <2>6. QED
    BY <2>1, <2>2, <2>4, <2>5
<1>33. PICK u : u = t \o e
  OBVIOUS
<1>34. d = h12 \o u
  <2>1. (MagicCookie \o t) \o e = MagicCookie \o u
    BY <1>27, <1>28, <1>33, ConcatAssociative, SMTT(30)
  <2>2. u \in Seq(Byte)
    BY <1>25, <1>26, <1>33
  <2>3. (h11 \o MagicCookie) \o u = h11 \o (MagicCookie \o u)
    <3>1. h11 \in Seq(Byte)
      BY <1>24
    <3>2. MagicCookie \in Seq(Byte)
      BY <1>28
    <3>3. QED
      BY <2>2, <3>1, <3>2, ConcatAssociative, SMTT(30)
  <2>4. QED
    BY <1>30, <1>31, <2>1, <2>3
<1>35. u \in Seq(Byte) /\ Layout(start, Encoded(WireEntries(type)), u)
  BY <1>25, <1>26, <1>33
<1>36. d \in Seq(Byte) /\ Len(d) = Len(h12) + Len(u) /\ StartsWith(d, h12)
  BY <1>32, <1>34, <1>35, NextPart
<1>37. Placed(d, WireEntries(type), start, <<>>)
  <2>1. WireEntries(type) \in Seq(Entries)
    BY WireEntriesType
  <2>2. PICK nil : nil = <<>>
    OBVIOUS
  <2>3. nil \in Seq(Byte) /\ d \o nil = d
    BY <1>36, <2>2, ConcatEmptySeq
  <2>4. Placed(h12 \o u \o nil, WireEntries(type), start, nil)
    BY <1>32, <1>35, <2>1, <2>3, PlacedAfter
  <2>5. QED
    BY <1>34, <2>2, <2>3, <2>4
<1>38. StartsWith(d, h11)
  BY <1>32, <1>36, StillStartsWith
<1>39. StartsWith(d, h10)
  BY <1>24, <1>38, StillStartsWith
<1>40. StartsWith(d, h9)
  BY <1>22, <1>39, StillStartsWith
<1>41. StartsWith(d, h8)
  BY <1>20, <1>40, StillStartsWith
<1>42. StartsWith(d, h7)
  BY <1>18, <1>41, StillStartsWith
<1>43. StartsWith(d, h6)
  BY <1>16, <1>42, StillStartsWith
<1>44. StartsWith(d, h5)
  BY <1>14, <1>43, StillStartsWith
<1>45. StartsWith(d, h4)
  BY <1>12, <1>44, StillStartsWith
<1>46. StartsWith(d, h3)
  BY <1>10, <1>45, StillStartsWith
<1>47. StartsWith(d, h2)
  BY <1>8, <1>46, StillStartsWith
<1>48. StartsWith(d, h1)
  BY <1>6, <1>47, StillStartsWith
<1>49. d[1] = 2 /\ d[2] = 1
  BY <1>4, <1>48 DEF StartsWith
<1>50. SubSeq(d, 5, 8) = message.xid
  <2>1. SubSeq(h2, 5, 8) = message.xid /\ Len(h2) = 8
    BY <1>1, <1>6
  <2>2. PICK i \in Nat \ {0}, j \in Nat : i = 5 /\ j = 8
    OBVIOUS
  <2>3. i <= j /\ j <= Len(h2)
    BY <2>1, <2>2
  <2>4. SubSeq(d, i, j) = SubSeq(h2, i, j)
    BY <1>47, <2>3, SamePart
  <2>5. QED
    BY <2>1, <2>2, <2>4
<1>51. SubSeq(d, 17, 20) = ip
  <2>1. SubSeq(h6, 17, 20) = ip /\ Len(h6) = 20
    BY <1>1, <1>14
  <2>2. PICK i \in Nat \ {0}, j \in Nat : i = 17 /\ j = 20
    OBVIOUS
  <2>3. i <= j /\ j <= Len(h6)
    BY <2>1, <2>2
  <2>4. SubSeq(d, i, j) = SubSeq(h6, i, j)
    BY <1>43, <2>3, SamePart
  <2>5. QED
    BY <2>1, <2>2, <2>4
<1>52. SubSeq(d, 29, 34) = message.chaddr
  <2>1. SubSeq(h9, 29, 34) = message.chaddr /\ Len(h9) = 34
    BY <1>1, <1>20
  <2>2. PICK i \in Nat \ {0}, j \in Nat : i = 29 /\ j = 34
    OBVIOUS
  <2>3. i <= j /\ j <= Len(h9)
    BY <2>1, <2>2
  <2>4. SubSeq(d, i, j) = SubSeq(h9, i, j)
    BY <1>40, <2>3, SamePart
  <2>5. QED
    BY <2>1, <2>2, <2>4
<1>53. SubSeq(d, Base + 1, Base + 4) = MagicCookie
  <2>1. Base + 1 \in Nat \ {0} /\ Base + 4 \in Nat /\ Base + 1 <= Base + 4
        /\ Base + 4 <= Len(h12)
    BY <1>32, BaseLength
  <2>2. SubSeq(d, Base + 1, Base + 4) = SubSeq(h12, Base + 1, Base + 4)
    BY <1>36, <2>1, SamePart
  <2>3. QED
    BY <1>32, <2>2
<1>54. Len(d) >= Base + 4
  BY <1>32, <1>36 DEF StartsWith
<1>55. QED
  BY <1>1, <1>29, <1>36, <1>37, <1>49, <1>50, <1>51, <1>52, <1>53, <1>54 DEF AnswerIs

-----------------------------------------------------------------------------
(* What the parser has read *)

(* The options a constructor can have returned. *)
AcceptedEntries == { e \in Entries : e.code \notin {0, 255} /\ Accepts(e.code, e.payload) }

(* The option made of an entry. *)
OptionOf(e) == Option(e.code, e.payload)

(* The options made of them. *)
AcceptedOptions == { OptionOf(e) : e \in AcceptedEntries }

(* The options are those of the first n entries, every one accepted. *)
ReadAt(of, options, es, n) ==
  /\ of \in [1 .. Len(options) -> 1 .. n]
  /\ \A j, k \in 1 .. Len(options) : j < k => of[j] < of[k]
  /\ \A k \in 1 .. Len(options) : options[k] = OptionOf(es[of[k]])
  /\ \A i \in 1 .. n : es[i].code # 0 <=> \E k \in 1 .. Len(options) : of[k] = i

(* The first n entries were read, none of them is the end, and the         *)
(* options are theirs.                                                     *)
ReadSoFar(options, es, n) ==
  /\ n \in 0 .. Len(es)
  /\ NoEnd(es, n)
  /\ \A i \in 1 .. n : es[i].code # 0 => Accepts(es[i].code, es[i].payload)
  /\ \E of : ReadAt(of, options, es, n)

(* The parser starts with nothing read. *)
LEMMA ReadNothing ==
  ASSUME NEW es \in Seq(Entries)
  PROVE  ReadSoFar(<<>>, es, 0)
<1>1. PICK o : o = <<>>
  OBVIOUS
<1>2. Len(o) = 0
  BY <1>1
<1>3. 1 .. Len(o) = {} /\ 1 .. 0 = {}
  BY <1>2
<1>4. PICK of : of = [k \in {} |-> 0]
  OBVIOUS
<1>5. of \in [1 .. Len(o) -> 1 .. 0]
  BY <1>3, <1>4
<1>6. ReadAt(of, o, es, 0)
  BY <1>3, <1>5 DEF ReadAt
<1>7. 0 \in 0 .. Len(es)
  BY LenProperties
<1>8. QED
  BY <1>1, <1>3, <1>6, <1>7 DEF ReadSoFar, NoEnd

(* A pad is read and adds no option. *)
LEMMA ReadPad ==
  ASSUME NEW options \in Seq(AcceptedOptions), NEW es \in Seq(Entries), NEW n \in Nat,
         ReadSoFar(options, es, n), n < Len(es), es[n + 1].code = 0
  PROVE  ReadSoFar(options, es, n + 1)
<1>1. PICK l \in Nat, m \in Nat : l = Len(options) /\ m = Len(es)
  BY LenProperties
<1>2. PICK of : ReadAt(of, options, es, n)
  BY DEF ReadSoFar
<1>3. of \in [1 .. l -> 1 .. n]
  BY <1>1, <1>2 DEF ReadAt
<1>4. of \in [1 .. l -> 1 .. n + 1]
  BY <1>3
<1>5. \A i \in 1 .. n + 1 : i \in 1 .. n \/ i = n + 1
  OBVIOUS
<1>6. ASSUME NEW i \in 1 .. n + 1
      PROVE  es[i].code # 0 <=> \E k \in 1 .. l : of[k] = i
  <2>1. CASE i \in 1 .. n
    BY <1>1, <1>2, <2>1 DEF ReadAt
  <2>2. CASE i = n + 1
    <3>1. \A k \in 1 .. l : of[k] # n + 1
      BY <1>3
    <3>2. QED
      BY <2>2, <3>1
  <2>3. QED
    BY <1>5, <2>1, <2>2
<1>7. ReadAt(of, options, es, n + 1)
  BY <1>1, <1>2, <1>4, <1>6 DEF ReadAt
<1>8. NoEnd(es, n + 1)
  BY <1>5 DEF ReadSoFar, NoEnd
<1>9. \A i \in 1 .. n + 1 : es[i].code # 0 => Accepts(es[i].code, es[i].payload)
  BY <1>5 DEF ReadSoFar
<1>10. n + 1 \in 0 .. Len(es)
  BY <1>1
<1>11. QED
  BY <1>7, <1>8, <1>9, <1>10 DEF ReadSoFar

(* An accepted entry is read and adds its option. *)
LEMMA ReadMore ==
  ASSUME NEW options \in Seq(AcceptedOptions), NEW es \in Seq(Entries), NEW n \in Nat,
         ReadSoFar(options, es, n), n < Len(es), es[n + 1] \in AcceptedEntries
  PROVE  /\ OptionOf(es[n + 1]) \in AcceptedOptions
         /\ ReadSoFar(Append(options, OptionOf(es[n + 1])), es, n + 1)
<1>1. PICK l \in Nat, m \in Nat : l = Len(options) /\ m = Len(es)
  BY LenProperties
<1>2. PICK of : ReadAt(of, options, es, n)
  BY DEF ReadSoFar
<1>3. /\ of \in [1 .. l -> 1 .. n]
      /\ \A j, k \in 1 .. l : j < k => of[j] < of[k]
      /\ \A k \in 1 .. l : options[k] = OptionOf(es[of[k]])
      /\ \A i \in 1 .. n : es[i].code # 0 <=> \E k \in 1 .. l : of[k] = i
  BY <1>1, <1>2 DEF ReadAt
<1>4. PICK o : o = OptionOf(es[n + 1])
  OBVIOUS
<1>5. o \in AcceptedOptions
  BY <1>4 DEF AcceptedOptions
<1>6. PICK more : more = Append(options, o)
  OBVIOUS
<1>7. /\ Len(more) = l + 1
      /\ \A k \in 1 .. l : more[k] = options[k]
      /\ more[l + 1] = o
  <2>1. /\ Len(Append(options, o)) = Len(options) + 1
        /\ \A k \in 1 .. Len(options) : Append(options, o)[k] = options[k]
        /\ Append(options, o)[Len(options) + 1] = o
    BY <1>5, AppendProperties
  <2>2. QED
    BY <1>1, <1>6, <2>1
<1>8. PICK f : f = [k \in 1 .. l + 1 |-> IF k = l + 1 THEN n + 1 ELSE of[k]]
  OBVIOUS
<1>9. f \in [1 .. l + 1 -> 1 .. n + 1]
  BY <1>3, <1>8
<1>10. f[l + 1] = n + 1 /\ \A k \in 1 .. l : f[k] = of[k] /\ of[k] \in 1 .. n
  BY <1>3, <1>8
<1>11. \A k \in 1 .. l + 1 : k \in 1 .. l \/ k = l + 1
  OBVIOUS
<1>12. \A i \in 1 .. n + 1 : i \in 1 .. n \/ i = n + 1
  OBVIOUS
<1>13. ASSUME NEW j \in 1 .. l + 1, NEW k \in 1 .. l + 1, j < k PROVE f[j] < f[k]
  <2>1. j \in 1 .. l
    BY <1>13
  <2>2. CASE k = l + 1
    BY <1>10, <2>1, <2>2
  <2>3. CASE k \in 1 .. l
    BY <1>3, <1>10, <1>13, <2>1, <2>3
  <2>4. QED
    BY <1>11, <2>2, <2>3
<1>14. ASSUME NEW k \in 1 .. l + 1 PROVE more[k] = OptionOf(es[f[k]])
  <2>1. CASE k = l + 1
    BY <1>4, <1>7, <1>10, <2>1
  <2>2. CASE k \in 1 .. l
    BY <1>3, <1>7, <1>10, <2>2
  <2>3. QED
    BY <1>11, <2>1, <2>2
<1>15. es[n + 1].code \notin {0, 255} /\ Accepts(es[n + 1].code, es[n + 1].payload)
  BY DEF AcceptedEntries
<1>16. ASSUME NEW i \in 1 .. n + 1
       PROVE  es[i].code # 0 <=> \E k \in 1 .. l + 1 : f[k] = i
  <2>1. CASE i = n + 1
    BY <1>10, <1>15, <2>1
  <2>2. CASE i \in 1 .. n
    <3>1. ASSUME es[i].code # 0 PROVE \E k \in 1 .. l + 1 : f[k] = i
      <4>1. PICK k \in 1 .. l : of[k] = i
        BY <1>3, <2>2, <3>1
      <4>2. k \in 1 .. l + 1 /\ f[k] = i
        BY <1>10, <4>1
      <4>3. QED
        BY <4>2
    <3>2. ASSUME NEW k \in 1 .. l + 1, f[k] = i PROVE es[i].code # 0
      <4>1. k # l + 1
        BY <1>10, <2>2, <3>2
      <4>2. k \in 1 .. l
        BY <1>11, <4>1
      <4>3. of[k] = i
        BY <1>10, <3>2, <4>2
      <4>4. QED
        BY <1>3, <2>2, <4>2, <4>3
    <3>3. QED
      BY <3>1, <3>2
  <2>3. QED
    BY <1>12, <2>1, <2>2
<1>17. ReadAt(f, more, es, n + 1)
  BY <1>7, <1>9, <1>13, <1>14, <1>16 DEF ReadAt
<1>18. NoEnd(es, n + 1)
  BY <1>12, <1>15 DEF ReadSoFar, NoEnd
<1>19. \A i \in 1 .. n + 1 : es[i].code # 0 => Accepts(es[i].code, es[i].payload)
  BY <1>12, <1>15 DEF ReadSoFar
<1>20. n + 1 \in 0 .. Len(es)
  BY <1>1
<1>21. QED
  BY <1>4, <1>5, <1>6, <1>17, <1>18, <1>19, <1>20 DEF ReadSoFar

(* The position of the parser is that of the entry after the first n. *)
IsAtEntry(at, d, es, start, n) ==
  /\ at \in 0 .. Len(d)
  /\ n < Len(es) =>
       /\ at # Len(d)
       /\ d[at + 1] = es[n + 1].code
       /\ es[n + 1].code \in {0, 255} => at + 1 = Base + 4 + start[n + 2]
       /\ es[n + 1].code \notin {0, 255} =>
            /\ d[at + 2] = Len(es[n + 1].payload)
            /\ SubSeq(d, at + 2 + 1, at + 2 + Len(es[n + 1].payload)) = es[n + 1].payload
            /\ at + 2 + Len(es[n + 1].payload) = Base + 4 + start[n + 2]
            /\ ~BreaksOff(SubSeq(d, at + 1, Len(d)))

(* What is left of the datagram. *)
IsLeft(r, d, at, l) ==
  /\ r \in Seq(Byte)
  /\ Len(r) = l - at
  /\ \A k \in 1 .. l - at : r[k] = d[at + k]

LEMMA Left ==
  ASSUME NEW d \in Seq(Byte), NEW at \in Nat, NEW l \in Nat, l = Len(d), at <= l
  PROVE  IsLeft(SubSeq(d, at + 1, l), d, at, l)
<1>1. l - at \in Nat
  OBVIOUS
<1>2. PICK c \in Nat : c = l - at
  BY <1>1
<1>3. l = at + c /\ at + c <= Len(d)
  BY <1>2
<1>4. /\ SubSeq(d, at + 1, at + c) \in Seq(Byte)
      /\ Len(SubSeq(d, at + 1, at + c)) = c
      /\ \A k \in 1 .. c : SubSeq(d, at + 1, at + c)[k] = d[at + k]
  BY <1>3, ByteSub
<1>5. QED
  BY <1>2, <1>3, <1>4 DEF IsLeft

(* An option that is all there does not break off. *)
LEMMA WholeOption ==
  ASSUME NEW r \in Seq(Byte), NEW e \in Entries, Len(r) >= 2 + Len(e.payload),
         r[1] = e.code, r[2] = Len(e.payload),
         \A k \in 1 .. Len(e.payload) : r[2 + k] = e.payload[k]
  PROVE  ~BreaksOff(r)
<1>1. PICK y \in Seq(Byte), p \in Nat : y = e.payload /\ p = Len(y)
  BY LenProperties, EntryType
<1>2. PICK l \in Nat : l = Len(r)
  BY LenProperties
<1>3. PICK a \in Nat : a = 2
  OBVIOUS
<1>4. a + Len(y) <= Len(r) /\ \A k \in 1 .. Len(y) : r[a + k] = y[k]
  BY <1>1, <1>2, <1>3
<1>5. SubSeq(r, a + 1, a + Len(y)) = y
  BY <1>4, Part
<1>6. SubSeq(r, 3, 2 + r[2]) = y
  BY <1>1, <1>3, <1>5
<1>7. HasWholeElements(r[1], y)
  BY <1>1, EntryType
<1>8. Len(r) >= 2 /\ Len(r) >= 2 + r[2]
  BY <1>1, <1>2
<1>9. HasWholeElements(r[1], SubSeq(r, 3, 2 + r[2]))
  BY <1>6, <1>7
<1>10. QED
  BY <1>8, <1>9 DEF BreaksOff

(* After n entries the parser is at the next one, or at the end of the     *)
(* data.                                                                   *)
LEMMA AtEntry ==
  ASSUME NEW d \in Seq(Byte), NEW es \in Seq(Entries), NEW start, NEW tail,
         Placed(d, es, start, tail), NEW n \in Nat, n <= Len(es)
  PROVE  IsAtEntry(Base + 4 + start[n + 1], d, es, start, n)
<1>1. PICK m \in Nat, l \in Nat : m = Len(es) /\ l = Len(d)
  BY LenProperties
<1>2. /\ start \in [1 .. m + 1 -> Nat]
      /\ \A i \in 1 .. m : start[i + 1] = start[i] + Len(Encode(es[i]))
      /\ \A i \in 1 .. m + 1 : start[i] <= start[m + 1]
      /\ Base + 4 + start[m + 1] <= l
      /\ \A i \in 1 .. m : \A k \in 1 .. Len(Encode(es[i])) :
           d[Base + 4 + (start[i] + k)] = Encode(es[i])[k]
  BY <1>1 DEF Placed
<1>3. PICK b \in Nat, g \in Nat, at \in Nat : b = Base + 4 /\ g = start[n + 1] /\ at = b + g
  <2>1. n + 1 \in 1 .. m + 1
    BY <1>1
  <2>2. start[n + 1] \in Nat /\ Base + 4 \in Nat
    <3>1. start[n + 1] \in Nat
      BY <1>2, <2>1
    <3>2. Base + 4 \in Nat
      BY BaseLength
    <3>3. QED
      BY <3>1, <3>2
  <2>3. Base + 4 + start[n + 1] \in Nat
    BY <2>2
  <2>4. QED
    BY <2>2, <2>3
<1>4. at \in 0 .. l
  <2>1. n + 1 \in 1 .. m + 1
    BY <1>1
  <2>2. g <= start[m + 1] /\ start[m + 1] \in Nat
    BY <1>2, <1>3, <2>1
  <2>3. b + start[m + 1] <= l
    BY <1>2, <1>3
  <2>4. QED
    BY <1>3, <2>2, <2>3
<1>6. ASSUME n < m
      PROVE  /\ at # l
             /\ d[at + 1] = es[n + 1].code
             /\ es[n + 1].code \in {0, 255} => at + 1 = Base + 4 + start[n + 2]
             /\ es[n + 1].code \notin {0, 255} =>
                  /\ d[at + 2] = Len(es[n + 1].payload)
                  /\ SubSeq(d, at + 2 + 1, at + 2 + Len(es[n + 1].payload))
                       = es[n + 1].payload
                  /\ at + 2 + Len(es[n + 1].payload) = Base + 4 + start[n + 2]
                  /\ ~BreaksOff(SubSeq(d, at + 1, l))
  <2>1. n + 1 \in 1 .. m /\ n + 2 \in 1 .. m + 1 /\ (n + 1) + 1 = n + 2
    BY <1>6
  <2>2. PICK e \in Entries : e = es[n + 1]
    BY <1>1, <2>1, ElementOfSeq
  <2>3. PICK x, h : x = Encode(e) /\ h = start[n + 2]
    OBVIOUS
  <2>4. /\ x \in Seq(Byte)
        /\ x[1] = e.code
        /\ e.code \in {0, 255} => Len(x) = 1
        /\ e.code \notin {0, 255} =>
             /\ Len(x) = 2 + Len(e.payload)
             /\ x[2] = Len(e.payload)
             /\ \A k \in 1 .. Len(e.payload) : x[2 + k] = e.payload[k]
    BY <2>3, EncodeBytes
  <2>5. PICK q \in Nat : q = Len(x)
    BY <2>4, LenProperties
  <2>6. PICK p \in Nat : p = Len(e.payload)
    BY LenProperties, EntryType
  <2>7. q >= 1 /\ (e.code \notin {0, 255} => q = 2 + p)
    BY <2>4, <2>5, <2>6
  <2>8. h = g + q /\ h \in Nat
    BY <1>2, <1>3, <2>1, <2>2, <2>3, <2>5
  <2>9. b + h <= l
    <3>1. h <= start[m + 1] /\ start[m + 1] \in Nat
      BY <1>2, <2>1, <2>3
    <3>2. b + start[m + 1] <= l
      BY <1>2, <1>3
    <3>3. QED
      BY <2>8, <3>1, <3>2
  <2>10. at # l
    BY <1>3, <2>7, <2>8, <2>9, SMTT(30)
  <2>11. ASSUME NEW k \in 1 .. q PROVE d[at + k] = x[k]
    <3>1. d[Base + 4 + (start[n + 1] + k)] = Encode(es[n + 1])[k]
      BY <1>2, <2>1, <2>2, <2>3, <2>5
    <3>2. d[b + (g + k)] = x[k]
      BY <1>3, <2>2, <2>3, <3>1
    <3>3. b + (g + k) = at + k
      BY <1>3
    <3>4. QED
      BY <3>2, <3>3
  <2>12. d[at + 1] = e.code
    BY <2>4, <2>7, <2>11
  <2>13. e.code \in {0, 255} => at + 1 = b + h
    <3>1. e.code \in {0, 255} => q = 1
      BY <2>4, <2>5
    <3>2. QED
      BY <1>3, <2>8, <3>1
  <2>14. ASSUME e.code \notin {0, 255}
         PROVE  /\ d[at + 2] = Len(e.payload)
                /\ SubSeq(d, at + 2 + 1, at + 2 + Len(e.payload)) = e.payload
                /\ at + 2 + Len(e.payload) = b + h
                /\ ~BreaksOff(SubSeq(d, at + 1, l))
    <3>1. d[at + 2] = Len(e.payload)
      <4>1. x[2] = Len(e.payload)
        BY <2>4, <2>14
      <4>2. q = 2 + p
        BY <2>7, <2>14
      <4>3. 2 \in 1 .. q
        BY <4>2
      <4>4. d[at + 2] = x[2]
        BY <2>11, <4>3
      <4>5. QED
        BY <4>1, <4>4
    <3>2. at + 2 + p = b + h
      <4>1. q = 2 + p
        BY <2>7, <2>14
      <4>2. h = g + (2 + p)
        BY <2>8, <4>1
      <4>3. at = b + g
        BY <1>3
      <4>4. QED
        BY <4>2, <4>3
    <3>3. ASSUME NEW k \in 1 .. p PROVE d[(at + 2) + k] = e.payload[k]
      <4>1. 2 + k \in 1 .. q /\ at + (2 + k) = (at + 2) + k
        BY <2>7, <2>14
      <4>2. d[at + (2 + k)] = x[2 + k]
        BY <2>11, <4>1
      <4>3. x[2 + k] = e.payload[k]
        BY <2>4, <2>6, <2>14
      <4>4. QED
        BY <4>1, <4>2, <4>3
    <3>4. PICK y : y = e.payload
      OBVIOUS
    <3>5. y \in Seq(Byte) /\ Len(y) = p
      BY <2>6, <3>4, EntryType
    <3>6. PICK a \in Nat : a = at + 2
      BY <1>3
    <3>7. a + Len(y) <= Len(d)
      BY <1>1, <2>9, <3>2, <3>5, <3>6
    <3>8. \A k \in 1 .. Len(y) : d[a + k] = y[k]
      BY <3>3, <3>4, <3>5, <3>6
    <3>9. SubSeq(d, a + 1, a + Len(y)) = y
      BY <3>5, <3>7, <3>8, Part
    <3>a. at <= l
      BY <1>4
    <3>b. IsLeft(SubSeq(d, at + 1, l), d, at, l)
      BY <1>1, <3>a, Left, Zenon
    <3>c. PICK r : r = SubSeq(d, at + 1, l)
      OBVIOUS
    <3>10. /\ r \in Seq(Byte) /\ Len(r) = l - at
           /\ \A k \in 1 .. l - at : r[k] = d[at + k]
      BY <3>b, <3>c DEF IsLeft
    <3>11. l - at >= 2 + p
      BY <1>3, <2>9, <3>2
    <3>12. r[1] = e.code /\ r[2] = p
      BY <2>6, <2>12, <3>1, <3>10, <3>11
    <3>13. ASSUME NEW k \in 1 .. p PROVE r[2 + k] = e.payload[k]
      <4>1. 2 + k \in 1 .. l - at /\ at + (2 + k) = (at + 2) + k
        BY <3>11
      <4>2. r[2 + k] = d[at + (2 + k)]
        BY <3>10, <4>1
      <4>3. QED
        BY <3>3, <4>1, <4>2
    <3>14. ~BreaksOff(r)
      BY <2>6, <3>10, <3>11, <3>12, <3>13, WholeOption
    <3>15. QED
      BY <2>6, <3>1, <3>2, <3>4, <3>6, <3>9, <3>c, <3>14
  <2>15. QED
    BY <1>3, <2>2, <2>3, <2>10, <2>12, <2>13, <2>14
<1>7. IsAtEntry(at, d, es, start, n)
  BY <1>1, <1>4, <1>6 DEF IsAtEntry
<1>8. QED
  BY <1>3, <1>7

-----------------------------------------------------------------------------
(* The first option with a code *)

(* The first element with a code. *)
First(s, c) == Min({ j \in 1 .. Len(s) : s[j].code = c })

(* If there is an element with the code there is a first one. *)
LEMMA FirstIs ==
  ASSUME NEW s, Len(s) \in Nat, NEW c, NEW i \in 1 .. Len(s), s[i].code = c
  PROVE  /\ First(s, c) \in 1 .. Len(s)
         /\ s[First(s, c)].code = c
         /\ \A j \in 1 .. Len(s) : s[j].code = c => First(s, c) <= j
<1>1. PICK l \in Nat : l = Len(s)
  OBVIOUS
<1> DEFINE I == { j \in 1 .. l : s[j].code = c }
           R == { ss \in Nat \X Nat : ss[1] < ss[2] }
<1>2. IsWellFoundedOn(R, Nat)
  BY NatLessThanWellFounded DEF OpToRel
<1>3. \A x, y \in Nat : <<x, y>> \in R <=> x < y
  OBVIOUS
<1> HIDE DEF R
<1>4. I \subseteq Nat /\ I # {}
  BY <1>1
<1>5. PICK m \in I : \A y \in I : <<y, m>> \notin R
  BY <1>2, <1>4, WFMin
<1>6. \A y \in I : m =< y
  <2> TAKE y \in I
  <2>1. y \in Nat /\ m \in Nat /\ ~(y < m)
    BY <1>3, <1>4, <1>5
  <2>2. QED
    BY <2>1
<1>7. Min(I) = CHOOSE x \in I : \A y \in I : x =< y
  BY DEF Min
<1>8. Min(I) \in I /\ \A y \in I : Min(I) =< y
  <2>1. \E x \in I : \A y \in I : x =< y
    BY <1>6
  <2> HIDE DEF I
  <2>2. QED
    BY <1>7, <2>1
<1>9. First(s, c) = Min(I)
  BY <1>1 DEF First
<1>10. QED
  BY <1>1, <1>8, <1>9

(* The first option of a code is made of the first entry of the code. *)
IsFirstEntry(i, options, es, n, c) ==
  /\ es[i] \in AcceptedEntries
  /\ es[i].code = c
  /\ options[First(options, c)] = OptionOf(es[i])
  /\ \A j \in 1 .. n : es[j].code = c => i <= j

(* The first option with a code comes from the first entry with it. *)
LEMMA FirstRead ==
  ASSUME NEW options \in Seq(AcceptedOptions), NEW es \in Seq(Entries), NEW n \in Nat,
         NEW c, NEW h \in 1 .. Len(options), ReadSoFar(options, es, n), options[h].code = c
  PROVE  \E i \in 1 .. n : IsFirstEntry(i, options, es, n, c)
<1>1. PICK l \in Nat, m \in Nat : l = Len(options) /\ m = Len(es)
  BY LenProperties
<1>2. PICK of : ReadAt(of, options, es, n)
  BY DEF ReadSoFar
<1>3. /\ of \in [1 .. l -> 1 .. n]
      /\ \A j, k \in 1 .. l : j < k => of[j] < of[k]
      /\ \A k \in 1 .. l : options[k] = OptionOf(es[of[k]])
      /\ \A i \in 1 .. n : es[i].code # 0 <=> \E k \in 1 .. l : of[k] = i
  BY <1>1, <1>2 DEF ReadAt
<1>4. PICK f : f = First(options, c)
  OBVIOUS
<1>5. /\ f \in 1 .. l /\ options[f].code = c
      /\ \A j \in 1 .. l : options[j].code = c => f <= j
  BY <1>1, <1>4, FirstIs
<1>6. PICK i \in 1 .. n : i = of[f]
  BY <1>3, <1>5
<1>7. \A e : OptionOf(e).code = e.code
  BY DEF OptionOf, Option
<1>8. es[i].code = c /\ options[f] = OptionOf(es[i])
  BY <1>3, <1>5, <1>6, <1>7
<1>9. es[i] \in AcceptedEntries
  <2>1. n <= m
    BY <1>1 DEF ReadSoFar
  <2>2. es[i] \in Entries
    BY <1>1, <2>1, ElementOfSeq
  <2>3. es[i].code # 0
    BY <1>3, <1>5, <1>6
  <2>4. es[i].code # 255
    BY DEF ReadSoFar, NoEnd
  <2>5. Accepts(es[i].code, es[i].payload)
    BY <2>3 DEF ReadSoFar
  <2>6. QED
    BY <2>2, <2>3, <2>4, <2>5 DEF AcceptedEntries
<1>10. c # 0
  BY <1>3, <1>5, <1>6, <1>8
<1>11. ASSUME NEW j \in 1 .. n, es[j].code = c PROVE i <= j
  <2>1. PICK k \in 1 .. l : of[k] = j
    BY <1>3, <1>10, <1>11
  <2>2. options[k].code = c
    BY <1>3, <1>7, <1>11, <2>1
  <2>3. f <= k
    BY <1>5, <2>2
  <2>4. f = k \/ of[f] < of[k]
    BY <1>3, <1>5, <2>3
  <2>5. QED
    BY <1>6, <2>1, <2>4
<1>12. QED
  BY <1>4, <1>8, <1>9, <1>11 DEF IsFirstEntry

(* The value of an option of one value. *)
LEMMA OneValueOption ==
  ASSUME NEW code \in Known \ {0, 255}, NEW payload \in Seq(Byte), NEW o,
         PayloadType(code) \notin Whole, PayloadType(code) # "FLAG",
         Len(payload) = Size(code), o = Option(code, payload)
  PROVE  o.real_values[1].bytes = payload
<1>1. o.real_values = real_values(code, payload)
  BY DEF Option
<1>2. QED
  BY <1>1, OneValue

(* The message type is the one byte of option 53. *)
LEMMA MessageTypeOption ==
  ASSUME NEW e \in AcceptedEntries, e.code = 53
  PROVE  /\ Len(e.payload) = 1
         /\ OptionOf(e).real_values[1].bytes = e.payload
         /\ e.payload = <<1>> <=> e.payload[1] = 1
<1>1. PICK c, p : c = e.code /\ p = e.payload
  OBVIOUS
<1>2. p \in Seq(Byte) /\ c = 53 /\ Accepts(c, p)
  BY <1>1, EntryType DEF AcceptedEntries
<1>3. WireCode(1) = 53
  BY DEF WireCode
<1>4. /\ c \in Known \ {0, 255} /\ PayloadType(c) \notin Whole
      /\ PayloadType(c) # "FLAG" /\ Size(c) = 1
  <2>1. 1 \in 1 .. 4
    OBVIOUS
  <2>2. QED
    BY <1>2, <1>3, <2>1, WireTypes
<1>5. c \notin ListCodes
  BY <1>2 DEF ListCodes
<1>6. Len(p) = Size(c)
  BY <1>2, <1>4, <1>5 DEF Accepts, VariableLength, Size
<1>7. Len(p) = 1
  BY <1>4, <1>6
<1>8. OptionOf(e).real_values[1].bytes = p
  BY <1>1, <1>2, <1>4, <1>6, OneValueOption DEF OptionOf
<1>9. p = <<1>> <=> p[1] = 1
  <2>1. ASSUME p[1] = 1 PROVE p = <<1>>
    <3>1. PICK q : q = <<1>>
      OBVIOUS
    <3>2. q \in Seq(Byte) /\ Len(q) = 1 /\ q[1] = 1
      BY <3>1 DEF Byte
    <3>3. \A k \in 1 .. Len(p) : p[k] = q[k]
      BY <1>7, <2>1, <3>2
    <3>4. p = q
      BY <1>2, <1>7, <3>2, <3>3, SeqEqual
    <3>5. QED
      BY <3>1, <3>4
  <2>2. p = <<1>> => p[1] = 1
    OBVIOUS
  <2>3. QED
    BY <2>1, <2>2
<1>10. QED
  BY <1>1, <1>7, <1>8, <1>9

(* A header the parser refuses. *)
HeaderIsBad(d) ==
  \/ Len(d) < Base
  \/ d[2] # 1
  \/ Len(d) >= Base + 4 /\ SubSeq(d, Base + 1, Base + 4) # MagicCookie

(* The parser refuses the header of a message of a client just when its    *)
(* fields are bad, and otherwise finds its entries behind the cookie.      *)
LEMMA ServerHeader ==
  ASSUME NEW m \in Messages
  PROVE  /\ HeaderIsBad(Datagram(m)) <=>
              m.chaddr = <<>> \/ m.htype # 1 \/ m.cookie \notin {<<>>, MagicCookie}
         /\ ~HeaderIsBad(Datagram(m)) =>
              /\ Len(Datagram(m)) < Base + 4 => m.entries = <<>>
              /\ Len(Datagram(m)) >= Base + 4 =>
                   \E start : Placed(Datagram(m), m.entries, start, m.tail)
<1>1. PICK d : d = Datagram(m)
  OBVIOUS
<1>2. /\ d \in Seq(Byte)
      /\ m.chaddr = <<>> => Len(d) < Base
      /\ m.chaddr # <<>> =>
           /\ Len(d) >= Base
           /\ d[2] = m.htype
           /\ m.cookie = <<>> => Len(d) = Base
           /\ m.cookie # <<>> =>
                /\ SubSeq(d, Base + 1, Base + 4) = m.cookie
                /\ \E start : Placed(d, m.entries, start, m.tail)
  BY <1>1, DatagramLayout
<1>3. m.cookie = <<>> => m.entries = <<>>
  BY MessageFields
<1>4. PICK l \in Nat, b \in Nat : l = Len(d) /\ b = Base
  BY <1>2, LenProperties, BaseLength
<1>5. CASE m.chaddr = <<>>
  <2>1. l < b
    BY <1>2, <1>4, <1>5
  <2>2. HeaderIsBad(d)
    BY <1>4, <2>1 DEF HeaderIsBad
  <2>3. QED
    BY <1>1, <1>5, <2>2
<1>6. CASE m.chaddr # <<>> /\ m.cookie = <<>>
  <2>1. l = b /\ d[2] = m.htype
    BY <1>2, <1>4, <1>6
  <2>2. HeaderIsBad(d) <=> m.htype # 1
    BY <1>4, <2>1 DEF HeaderIsBad
  <2>3. ~(Len(d) >= Base + 4)
    BY <1>4, <2>1
  <2>4. QED
    BY <1>1, <1>3, <1>6, <2>2, <2>3
<1>7. CASE m.chaddr # <<>> /\ m.cookie # <<>>
  <2>1. PICK start : Placed(d, m.entries, start, m.tail)
    BY <1>2, <1>7
  <2>2. SubSeq(d, Base + 1, Base + 4) = m.cookie /\ d[2] = m.htype
    BY <1>2, <1>7
  <2>3. l >= b + 4
    <3>1. b + 4 + start[Len(m.entries) + 1] <= l /\ start[Len(m.entries) + 1] \in Nat
      <4>1. m.entries \in Seq(Entries)
        BY MessageFields
      <4>2. Len(m.entries) + 1 \in 1 .. Len(m.entries) + 1
        BY <4>1, LenProperties
      <4>3. QED
        BY <1>4, <2>1, <4>2 DEF Placed
    <3>2. QED
      BY <3>1
  <2>4. ~(l < b) /\ ~(Len(d) < Base + 4) /\ Len(d) >= Base + 4
    BY <1>4, <2>3
  <2>5. HeaderIsBad(d) <=> m.htype # 1 \/ m.cookie # MagicCookie
    BY <1>4, <2>2, <2>4 DEF HeaderIsBad
  <2>6. QED
    BY <1>1, <1>7, <2>1, <2>4, <2>5
<1>8. QED
  BY <1>5, <1>6, <1>7

-----------------------------------------------------------------------------
(* The invariant *)

(* The type of the answer to the message that was sent. *)
AnswerType ==
  IF sent.entries[SelectInSeq(sent.entries, LAMBDA e : e.code = 53)].payload = <<DHCPDISCOVER>>
  THEN DHCPOFFER ELSE DHCPACK

(* The entries of the datagram that is parsed. *)
Wire == IF side = "server" THEN sent.entries ELSE WireEntries(AnswerType)

(* What breaks off behind them. *)
WireTail == IF side = "server" THEN sent.tail ELSE <<>>

(* The datagram is that of the message sent, or an answer to it. *)
DataInv ==
  /\ sent \in Sent
  /\ side \in {"server", "client"}
  /\ side = "server" => data = Datagram(sent) /\ given = <<>>
  /\ side = "client" =>
       /\ given \in Addresses
       /\ sent.chaddr # <<>>
       /\ AnswerIs(data, AnswerType, given, sent.xid, sent.chaddr)

(* What the parser may have read. *)
MessageRecords ==
  [op : Byte, htype : Byte, hlen : Byte, hops : Byte, xid : Seq(Byte), secs : Seq(Byte),
   flags : Seq(Byte), ciaddr : Seq(Byte), yiaddr : Seq(Byte), siaddr : Seq(Byte),
   giaddr : Seq(Byte), chaddr : Seq(Byte), options : Seq(AcceptedOptions)]

(* The fixed part was read as it lies in the datagram. *)
HeaderIsRead ==
  /\ ~HeaderIsBad(data)
  /\ message.op = data[1]
  /\ message.xid = SubSeq(data, 5, 8)
  /\ message.yiaddr = SubSeq(data, 17, 20)
  /\ message.chaddr = SubSeq(data, 29, 34)

(* The parser has read n entries and stands at the next one. *)
InOptions(n, start) ==
  /\ n <= Len(Wire)
  /\ Placed(data, Wire, start, WireTail)
  /\ iter = Base + 4 + start[n + 1]
  /\ ReadSoFar(message.options, Wire, n)

(* The parser has read n entries, and stopped at the end of them. *)
AllIsRead(n) ==
  /\ n <= Len(Wire)
  /\ n = Len(Wire) \/ Wire[n + 1].code = 255
  /\ ReadSoFar(message.options, Wire, n)

(* The entry after the first n is one the constructor refuses. *)
IsRefused(n) ==
  /\ n < Len(Wire)
  /\ NoEnd(Wire, n)
  /\ Wire[n + 1].code \notin {0, 255}
  /\ ~Accepts(Wire[n + 1].code, Wire[n + 1].payload)

(* The parser has read all entries, and what follows breaks off. *)
IsCut ==
  /\ WireTail # <<>>
  /\ ReadSoFar(message.options, Wire, Len(Wire))

(* Where the parser is, it has read what lies before. *)
ParserInv ==
  /\ message \in MessageRecords
  /\ pc \in {"header", "options", "done", "thrown", "dead", "astray"}
  /\ iter \in 0 .. Len(data)
  /\ pc = "header" => iter = 0 /\ message = EmptyMessage
  /\ pc = "options" => HeaderIsRead /\ \E n \in Nat : \E start : InOptions(n, start)
  /\ pc = "done" => HeaderIsRead /\ \E n \in Nat : AllIsRead(n)
  /\ pc = "thrown" => HeaderIsBad(data) \/ IsCut \/ \E n \in Nat : IsRefused(n)
  /\ pc \in {"dead", "astray"} => ~HeaderIsBad(data) /\ IsCut

(* The inductive invariant: the datagram and how far it was read. *)
Inv == DataInv /\ ParserInv

(* An answer is an offer or an acknowledgement. *)
LEMMA AnswerTypeIs == AnswerType \in AnswerTypes
BY DEF AnswerType, AnswerTypes

(* What the datagram holds, on either side. *)
LEMMA DataHolds ==
  ASSUME DataInv
  PROVE  /\ sent \in Messages
         /\ data \in Seq(Byte)
         /\ Wire \in Seq(Entries)
         /\ WireTail # <<>> => BreaksOff(WireTail)
         /\ ~HeaderIsBad(data) =>
              /\ Len(data) < Base + 4 => Wire = <<>>
              /\ Len(data) >= Base + 4 => \E start : Placed(data, Wire, start, WireTail)
<1>1. sent \in Messages
  BY SentAssumption DEF DataInv
<1>2. CASE side = "server"
  <2>1. data = Datagram(sent) /\ Wire = sent.entries /\ WireTail = sent.tail
    BY <1>2 DEF DataInv, Wire, WireTail
  <2>2. data \in Seq(Byte)
    BY <1>1, <2>1, DatagramLayout
  <2>3. Wire \in Seq(Entries)
    BY <1>1, <2>1, MessageFields
  <2>4. ~HeaderIsBad(data) =>
              /\ Len(data) < Base + 4 => Wire = <<>>
              /\ Len(data) >= Base + 4 => \E start : Placed(data, Wire, start, WireTail)
    BY <1>1, <2>1, ServerHeader
  <2>5. WireTail # <<>> => BreaksOff(WireTail)
    BY <1>1, <2>1, MessageFields
  <2>6. QED
    BY <1>1, <2>2, <2>3, <2>4, <2>5
<1>3. CASE side = "client"
  <2>1. /\ Wire = WireEntries(AnswerType) /\ AnswerType \in AnswerTypes
        /\ WireTail = <<>>
    BY <1>3, AnswerTypeIs DEF Wire, WireTail
  <2>2. Wire \in Seq(Entries)
    BY <2>1, WireEntriesType
  <2>3. /\ data \in Seq(Byte) /\ Len(data) >= Base + 4
        /\ \E start : Placed(data, Wire, start, WireTail)
    BY <1>3, <2>1 DEF DataInv, AnswerIs
  <2>4. ~(Len(data) < Base + 4)
    <3>1. PICK l \in Nat, b \in Nat : l = Len(data) /\ b = Base + 4
      BY <2>3, LenProperties, BaseLength
    <3>2. l >= b
      BY <2>3, <3>1
    <3>3. ~(l < b)
      BY <3>2
    <3>4. QED
      BY <3>1, <3>3
  <2>5. QED
    BY <1>1, <2>1, <2>2, <2>3, <2>4
<1>4. QED
  BY <1>2, <1>3 DEF DataInv

(* The message before the parser has read anything. *)
LEMMA EmptyIsRecord == EmptyMessage \in MessageRecords /\ EmptyMessage.options = <<>>
<1>1. PICK z2, z4, e, o : z2 = Zeros(2) /\ z4 = Zeros(4) /\ e = <<>> /\ o = <<>>
  OBVIOUS
<1>2. z2 \in Seq(Byte) /\ z4 \in Seq(Byte)
  BY <1>1, ZerosAreBytes
<1>3. e \in Seq(Byte) /\ o \in Seq(AcceptedOptions)
  BY <1>1
<1>4. EmptyMessage =
       [op |-> 1, htype |-> 1, hlen |-> 6, hops |-> 0, xid |-> z4, secs |-> z2,
        flags |-> z2, ciaddr |-> z4, yiaddr |-> z4, siaddr |-> z4,
        giaddr |-> z4, chaddr |-> e, options |-> o]
  BY <1>1, Zenon DEF EmptyMessage
<1>5. 1 \in Byte /\ 6 \in Byte /\ 0 \in Byte
  BY DEF Byte
<1>6. EmptyMessage \in MessageRecords
  BY <1>2, <1>3, <1>4, <1>5 DEF MessageRecords
<1>7. QED
  BY <1>1, <1>4, <1>6

(* The server starts to parse what a client sent. *)
LEMMA InitInv == Init => Inv
<1> SUFFICES ASSUME Init PROVE Inv
  OBVIOUS
<1>1. DataInv
  BY DEF Init, DataInv
<1>2. message \in MessageRecords
  BY EmptyIsRecord DEF Init
<1>3. data \in Seq(Byte)
  BY <1>1, DataHolds
<1>4. iter \in 0 .. Len(data)
  BY <1>3, LenProperties DEF Init
<1>5. QED
  BY <1>1, <1>2, <1>4 DEF Init, Inv, ParserInv

(* The action leaves what was sent and its datagram alone. *)
LEMMA DataStays ==
  ASSUME DataInv, UNCHANGED <<sent, side, data, given>>
  PROVE  /\ DataInv' /\ Wire' = Wire /\ WireTail' = WireTail
         /\ HeaderIsBad(data) <=> HeaderIsBad(data')
<1>1. AnswerType' = AnswerType
  <2>1. sent' = sent
    OBVIOUS
  <2>2. QED
    BY <2>1 DEF AnswerType, SelectInSeq
<1>2. Wire' = Wire /\ WireTail' = WireTail
  BY <1>1 DEF Wire, WireTail
<1>3. DataInv'
  BY <1>1 DEF DataInv
<1>4. QED
  BY <1>2, <1>3

(* The fixed part of the message. *)
LEMMA FixedPart ==
  ASSUME NEW d \in Seq(Byte), Len(d) >= Base
  PROVE  /\ SubSeq(d, 2, 2) = <<1>> <=> d[2] = 1
         /\ \A a, b \in Nat : a + b <= 44 => SubSeq(d, a + 1, a + b) \in Seq(Byte)
         /\ \A i \in 1 .. 44 : d[i] \in Byte
<1>1. PICK l \in Nat : l = Len(d)
  BY LenProperties
<1>2. l >= 44
  BY <1>1, BaseLength
<1>3. \A i \in 1 .. 44 : d[i] \in Byte
  BY <1>1, <1>2, ElementOfSeq
<1>4. ASSUME NEW a \in Nat, NEW b \in Nat, a + b <= 44
      PROVE  /\ SubSeq(d, a + 1, a + b) \in Seq(Byte)
             /\ Len(SubSeq(d, a + 1, a + b)) = b
             /\ \A k \in 1 .. b : SubSeq(d, a + 1, a + b)[k] = d[a + k]
  <2>1. a + b <= Len(d)
    BY <1>1, <1>2, <1>4
  <2>2. QED
    BY <2>1, ByteSub
<1>5. SubSeq(d, 2, 2) = <<1>> <=> d[2] = 1
  <2>1. PICK x, y : x = SubSeq(d, 2, 2) /\ y = <<1>>
    OBVIOUS
  <2>2. x \in Seq(Byte) /\ Len(x) = 1 /\ x[1] = d[2]
    <3>1. PICK a \in Nat, b \in Nat : a = 1 /\ b = 1
      OBVIOUS
    <3>2. /\ SubSeq(d, a + 1, a + b) \in Seq(Byte)
          /\ Len(SubSeq(d, a + 1, a + b)) = b
          /\ \A k \in 1 .. b : SubSeq(d, a + 1, a + b)[k] = d[a + k]
      <4>1. a + b <= 44
        BY <3>1
      <4>2. QED
        BY <1>4, <4>1
    <3>3. a + 1 = 2 /\ a + b = 2 /\ 1 \in 1 .. b
      BY <3>1
    <3>4. QED
      BY <2>1, <3>1, <3>2, <3>3
  <2>3. y \in Seq(Byte) /\ Len(y) = 1 /\ y[1] = 1
    BY <2>1 DEF Byte
  <2>4. ASSUME x[1] = 1 PROVE x = y
    <3>1. \A k \in 1 .. Len(x) : x[k] = y[k]
      BY <2>2, <2>3, <2>4
    <3>2. QED
      BY <2>2, <2>3, <3>1, SeqEqual
  <2>5. QED
    BY <2>1, <2>2, <2>3, <2>4
<1>6. QED
  BY <1>3, <1>4, <1>5

(* The parser's reading of the fixed part. *)
ReadHeader ==
  [EmptyMessage EXCEPT
       !.op = data[1], !.htype = data[2], !.hlen = data[3], !.hops = data[4],
       !.xid = Bytes(4, 4), !.secs = Bytes(8, 2), !.flags = Bytes(10, 2),
       !.ciaddr = Bytes(12, 4), !.yiaddr = Bytes(16, 4), !.siaddr = Bytes(20, 4),
       !.giaddr = Bytes(24, 4), !.chaddr = Bytes(28, 6)]

(* The fields the parser reads are those of the datagram. *)
LEMMA HeaderRecord ==
  ASSUME data \in Seq(Byte), Len(data) >= Base
  PROVE  /\ ReadHeader \in MessageRecords
         /\ ReadHeader.op = data[1]
         /\ ReadHeader.xid = SubSeq(data, 5, 8)
         /\ ReadHeader.yiaddr = SubSeq(data, 17, 20)
         /\ ReadHeader.chaddr = SubSeq(data, 29, 34)
         /\ ReadHeader.options = <<>>
<1>1. PICK b1, b2, b3, b4, x1, x2, x3, x4, x5, x6, x7, x8 :
        /\ b1 = data[1] /\ b2 = data[2] /\ b3 = data[3] /\ b4 = data[4]
        /\ x1 = Bytes(4, 4) /\ x2 = Bytes(8, 2) /\ x3 = Bytes(10, 2) /\ x4 = Bytes(12, 4)
        /\ x5 = Bytes(16, 4) /\ x6 = Bytes(20, 4) /\ x7 = Bytes(24, 4) /\ x8 = Bytes(28, 6)
  OBVIOUS
<1>2. b1 \in Byte /\ b2 \in Byte /\ b3 \in Byte /\ b4 \in Byte
  BY <1>1, FixedPart
<1>3. \A i, n \in Nat : i + n <= 44 => Bytes(i, n) \in Seq(Byte)
  BY FixedPart DEF Bytes
<1>4. /\ x1 \in Seq(Byte) /\ x2 \in Seq(Byte) /\ x3 \in Seq(Byte) /\ x4 \in Seq(Byte)
      /\ x5 \in Seq(Byte) /\ x6 \in Seq(Byte) /\ x7 \in Seq(Byte) /\ x8 \in Seq(Byte)
  BY <1>1, <1>3
<1>5. x1 = SubSeq(data, 5, 8) /\ x5 = SubSeq(data, 17, 20) /\ x8 = SubSeq(data, 29, 34)
  BY <1>1 DEF Bytes
<1>6. PICK e : e = EmptyMessage
  OBVIOUS
<1>7. e \in MessageRecords /\ e.options = <<>>
  BY <1>6, EmptyIsRecord
<1>8. ReadHeader =
        [e EXCEPT !.op = b1, !.htype = b2, !.hlen = b3, !.hops = b4,
           !.xid = x1, !.secs = x2, !.flags = x3, !.ciaddr = x4, !.yiaddr = x5,
           !.siaddr = x6, !.giaddr = x7, !.chaddr = x8]
  BY <1>1, <1>6, Zenon DEF ReadHeader
<1>9. ReadHeader \in MessageRecords
  BY <1>2, <1>4, <1>7, <1>8 DEF MessageRecords
<1>10. /\ ReadHeader.op = b1 /\ ReadHeader.xid = x1 /\ ReadHeader.yiaddr = x5
       /\ ReadHeader.chaddr = x8 /\ ReadHeader.options = e.options
  BY <1>7, <1>8 DEF MessageRecords
<1>11. QED
  BY <1>1, <1>5, <1>7, <1>9, <1>10

-----------------------------------------------------------------------------
(* The steps of the parser *)

(* A refused header is a bad one. *)
LEMMA HeaderThrowsInv ==
  ASSUME Inv, HeaderThrows
  PROVE  Inv'
<1>1. DataInv /\ data \in Seq(Byte) /\ message \in MessageRecords /\ iter \in 0 .. Len(data)
  BY DataHolds DEF Inv, ParserInv
<1>2. UNCHANGED <<sent, side, data, iter, message, given>> /\ pc' = "thrown"
  BY DEF HeaderThrows, Throw
<1>3. HeaderIsBad(data)
  <2>1. CASE Len(data) < Base
    BY <2>1 DEF HeaderIsBad
  <2>2. CASE Bytes(1, 1) # <<1>> /\ ~(Len(data) < Base)
    <3>1. Len(data) >= Base
      <4>1. PICK l \in Nat, b \in Nat : l = Len(data) /\ b = Base
        BY <1>1, LenProperties, BaseLength
      <4>2. QED
        BY <2>2, <4>1
    <3>2. Bytes(1, 1) = SubSeq(data, 2, 2)
      BY DEF Bytes
    <3>3. data[2] # 1
      BY <1>1, <2>2, <3>1, <3>2, FixedPart
    <3>4. QED
      BY <3>3 DEF HeaderIsBad
  <2>3. CASE /\ Len(data) >= Base + 4
             /\ Bytes(Base, 4) # MagicCookie
    BY <2>3 DEF HeaderIsBad, Bytes
  <2>4. QED
    BY <2>1, <2>2, <2>3 DEF HeaderThrows, Base
<1>4. DataInv' /\ HeaderIsBad(data')
  BY <1>1, <1>2, <1>3, DataStays
<1>5. ParserInv'
  BY <1>1, <1>2, <1>4 DEF ParserInv
<1>6. QED
  BY <1>4, <1>5 DEF Inv

(* A header that is read leaves the parser at the first entry. *)
LEMMA ParseHeaderInv ==
  ASSUME Inv, ParseHeader
  PROVE  Inv'
<1>1. DataInv /\ data \in Seq(Byte)
  BY DataHolds DEF Inv
<1>2. /\ UNCHANGED <<sent, side, data, given>>
      /\ Len(data) >= Base /\ Bytes(1, 1) = <<1>>
      /\ message' = ReadHeader
      /\ IF Len(data) < Base + 4
         THEN pc' = "done" /\ iter' = Base
         ELSE Bytes(Base, 4) = MagicCookie /\ pc' = "options" /\ iter' = Base + 4
  BY DEF ParseHeader, ReadHeader, Base
<1>3. PICK l \in Nat, b \in Nat : l = Len(data) /\ b = Base
  BY <1>1, LenProperties, BaseLength
<1>4. data[2] = 1
  <2>1. Bytes(1, 1) = SubSeq(data, 2, 2)
    BY DEF Bytes
  <2>2. QED
    BY <1>1, <1>2, <2>1, FixedPart
<1>5. ~HeaderIsBad(data)
  <2>1. ~(Len(data) < Base)
    BY <1>2, <1>3
  <2>2. ASSUME Len(data) >= Base + 4 PROVE SubSeq(data, Base + 1, Base + 4) = MagicCookie
    <3>1. ~(Len(data) < Base + 4)
      BY <1>3, <2>2
    <3>2. Bytes(Base, 4) = MagicCookie
      BY <1>2, <3>1
    <3>3. QED
      BY <3>2 DEF Bytes
  <2>3. QED
    BY <1>4, <2>1, <2>2 DEF HeaderIsBad
<1>6. /\ message' \in MessageRecords
      /\ message'.op = data[1]
      /\ message'.xid = SubSeq(data, 5, 8)
      /\ message'.yiaddr = SubSeq(data, 17, 20)
      /\ message'.chaddr = SubSeq(data, 29, 34)
      /\ message'.options = <<>>
  BY <1>1, <1>2, HeaderRecord
<1>7. DataInv' /\ Wire' = Wire /\ WireTail' = WireTail /\ ~HeaderIsBad(data')
  BY <1>1, <1>2, <1>5, DataStays
<1>8. HeaderIsRead'
  BY <1>2, <1>6, <1>7 DEF HeaderIsRead
<1>9. Wire \in Seq(Entries) /\ Len(Wire) \in Nat
  BY <1>1, DataHolds, LenProperties
<1>10. ReadSoFar(message'.options, Wire', 0)
  BY <1>6, <1>7, <1>9, ReadNothing
<1>11. CASE Len(data) < Base + 4
  <2>1. pc' = "done" /\ iter' = Base
    BY <1>2, <1>11
  <2>2. Wire' = <<>>
    BY <1>1, <1>5, <1>7, <1>11, DataHolds
  <2>3. Len(Wire') = 0
    BY <2>2
  <2>4. AllIsRead(0)'
    BY <1>10, <2>3 DEF AllIsRead
  <2>5. iter' \in 0 .. Len(data')
    BY <1>2, <1>3, <2>1
  <2>6. ParserInv'
    BY <1>6, <1>8, <2>1, <2>4, <2>5 DEF ParserInv
  <2>7. QED
    BY <1>7, <2>6 DEF Inv
<1>12. CASE ~(Len(data) < Base + 4)
  <2>1. pc' = "options" /\ iter' = Base + 4
    BY <1>2, <1>12
  <2>2. Len(data) >= Base + 4
    BY <1>3, <1>12
  <2>3. PICK start : Placed(data, Wire, start, WireTail)
    BY <1>1, <1>5, <2>2, DataHolds
  <2>4. start[0 + 1] = 0
    BY <2>3 DEF Placed
  <2>5. iter' = Base + 4 + start[0 + 1]
    BY <1>3, <2>1, <2>4
  <2>6. InOptions(0, start)'
    BY <1>2, <1>7, <1>9, <1>10, <2>3, <2>5 DEF InOptions
  <2>7. iter' \in 0 .. Len(data')
    BY <1>2, <1>3, <2>1, <2>2
  <2>8. ParserInv'
    BY <1>6, <1>8, <2>1, <2>6, <2>7 DEF ParserInv
  <2>9. QED
    BY <1>7, <2>8 DEF Inv
<1>13. QED
  BY <1>11, <1>12

(* What is left after all entries is the tail: it is empty, or breaks off. *)
LEMMA LeftIsTail ==
  ASSUME Inv, pc = "options", iter # Len(data), NEW n \in Nat, NEW start, InOptions(n, start)
  PROVE  n = Len(Wire) => WireTail # <<>> /\ BreaksOff(Rest)
<1>1. data \in Seq(Byte) /\ iter \in 0 .. Len(data)
  BY DataHolds DEF Inv, ParserInv
<1>2. SUFFICES ASSUME n = Len(Wire) PROVE WireTail # <<>> /\ BreaksOff(Rest)
  OBVIOUS
<1>3. Rest = WireTail
  BY <1>2 DEF Rest, InOptions, Placed
<1>4. PICK l \in Nat : l = Len(data)
  BY <1>1, LenProperties
<1>a. iter \in Nat /\ iter <= l
  BY <1>1, <1>4
<1>b. IsLeft(SubSeq(data, iter + 1, l), data, iter, l)
  BY <1>1, <1>4, <1>a, Left, Zenon
<1>c. PICK r : r = SubSeq(data, iter + 1, l)
  OBVIOUS
<1>5. r = Rest /\ r \in Seq(Byte) /\ Len(r) = l - iter
  BY <1>4, <1>b, <1>c DEF Rest, IsLeft
<1>6. Len(r) # 0
  BY <1>1, <1>4, <1>5
<1>7. r # <<>>
  BY <1>5, <1>6, EmptySeq
<1>8. QED
  BY <1>3, <1>5, <1>7, DataHolds DEF Inv

(* A pad or the end does not break off. *)
LEMMA OneByteOption ==
  ASSUME Inv, pc = "options", iter # Len(data), data[iter + 1] \in {0, 255}
  PROVE  ~BreaksOff(Rest)
<1>1. data \in Seq(Byte) /\ iter \in 0 .. Len(data)
  BY DataHolds DEF Inv, ParserInv
<1>2. PICK l \in Nat : l = Len(data)
  BY <1>1, LenProperties
<1>a. iter \in Nat /\ iter <= l
  BY <1>1, <1>2
<1>b. IsLeft(SubSeq(data, iter + 1, l), data, iter, l)
  BY <1>1, <1>2, <1>a, Left, Zenon
<1>c. PICK r : r = SubSeq(data, iter + 1, l)
  OBVIOUS
<1>3. /\ r = Rest /\ r \in Seq(Byte)
      /\ \A k \in 1 .. l - iter : r[k] = data[iter + k]
  BY <1>2, <1>b, <1>c DEF Rest, IsLeft
<1>4. 1 \in 1 .. l - iter
  BY <1>1, <1>2
<1>5. r[1] = data[iter + 1]
  BY <1>3, <1>4
<1>6. QED
  BY <1>3, <1>5 DEF BreaksOff

(* The parser between two options: what lies at its position, if nothing   *)
(* breaks off there.                                                       *)
LEMMA AtNextOption ==
  ASSUME Inv, pc = "options", NEW n \in Nat, NEW start, InOptions(n, start),
         iter # Len(data), ~BreaksOff(Rest)
  PROVE  /\ n < Len(Wire)
         /\ Wire[n + 1] \in Entries
         /\ data[iter + 1] = Wire[n + 1].code
         /\ Wire[n + 1].code \in {0, 255} => iter + 1 = Base + 4 + start[n + 2]
         /\ Wire[n + 1].code \notin {0, 255} =>
              /\ Payload = Wire[n + 1].payload
              /\ iter + 2 + Len(Payload) = Base + 4 + start[n + 2]
<1>1. data \in Seq(Byte) /\ Wire \in Seq(Entries)
  BY DataHolds DEF Inv
<1>2. PICK es, d : es = Wire /\ d = data
  OBVIOUS
<1>3. /\ d \in Seq(Byte) /\ es \in Seq(Entries) /\ Placed(d, es, start, WireTail)
      /\ n <= Len(es) /\ iter = Base + 4 + start[n + 1]
  BY <1>1, <1>2 DEF InOptions
<1>4. IsAtEntry(iter, d, es, start, n)
  <2>1. IsAtEntry(Base + 4 + start[n + 1], d, es, start, n)
    BY <1>3, AtEntry
  <2>2. QED
    BY <1>3, <2>1
<1>5. PICK l \in Nat : l = Len(es)
  BY <1>3, LenProperties
<1>6. n < Len(es)
  <2>1. n # Len(es)
    BY <1>2, <1>3, LeftIsTail
  <2>2. QED
    BY <1>3, <1>5, <2>1
<1>7. es[n + 1] \in Entries
  <2>1. n + 1 \in 1 .. l
    BY <1>5, <1>6
  <2>2. QED
    BY <1>3, <1>5, <2>1, ElementOfSeq
<1>8. ASSUME es[n + 1].code \notin {0, 255}
      PROVE  Payload = es[n + 1].payload
  <2>1. data[iter + 2] = Len(es[n + 1].payload)
    BY <1>2, <1>4, <1>6, <1>8 DEF IsAtEntry
  <2>2. Payload = SubSeq(data, iter + 2 + 1, iter + 2 + Len(es[n + 1].payload))
    BY <2>1 DEF Payload, Bytes
  <2>3. QED
    BY <1>2, <1>4, <1>6, <1>8, <2>2 DEF IsAtEntry
<1>9. ASSUME es[n + 1].code \notin {0, 255}
      PROVE  iter + 2 + Len(Payload) = Base + 4 + start[n + 2]
  BY <1>4, <1>6, <1>8, <1>9 DEF IsAtEntry
<1>10. QED
  BY <1>2, <1>4, <1>6, <1>7, <1>8, <1>9 DEF IsAtEntry

(* A pad moves the parser to the next entry. *)
LEMMA PadInv ==
  ASSUME Inv, Pad
  PROVE  Inv'
<1>1. /\ UNCHANGED <<sent, side, data, message, pc, given>> /\ iter' = iter + 1
      /\ pc = "options" /\ iter # Len(data) /\ data[iter + 1] = 0
  BY DEF Pad, AtOption
<1>2. /\ DataInv /\ data \in Seq(Byte) /\ Wire \in Seq(Entries)
      /\ message \in MessageRecords /\ HeaderIsRead
  BY <1>1, DataHolds DEF Inv, ParserInv
<1>3. /\ DataInv' /\ Wire' = Wire /\ WireTail' = WireTail
      /\ HeaderIsBad(data) <=> HeaderIsBad(data')
  BY <1>1, <1>2, DataStays
<1>a. PICK n \in Nat : \E start : InOptions(n, start)
  BY <1>1 DEF Inv, ParserInv
<1>4. PICK start : InOptions(n, start)
  BY <1>a
<1>5. n < Len(Wire) /\ Wire[n + 1].code = 0 /\ iter + 1 = Base + 4 + start[n + 2]
  BY <1>1, <1>4, AtNextOption, OneByteOption
<1>6. message.options \in Seq(AcceptedOptions)
  BY <1>2 DEF MessageRecords
<1>7. ReadSoFar(message.options, Wire, n + 1)
  BY <1>2, <1>4, <1>5, <1>6, ReadPad DEF InOptions
<1>8. Len(Wire) \in Nat /\ n + 1 \in Nat /\ (n + 1) + 1 = n + 2
  BY <1>2, LenProperties
<1>9. n + 1 <= Len(Wire)
  BY <1>5, <1>8
<1>10. InOptions(n + 1, start)'
  BY <1>1, <1>3, <1>4, <1>5, <1>7, <1>8, <1>9 DEF InOptions
<1>11. iter' \in 0 .. Len(data')
  <2>1. Base + 4 + start[(n + 1) + 1] \in 0 .. Len(data)
    BY <1>2, <1>4, <1>8, <1>9, AtEntry DEF InOptions, IsAtEntry
  <2>2. QED
    BY <1>1, <1>5, <1>8, <2>1
<1>12. HeaderIsRead'
  BY <1>1, <1>2, <1>3 DEF HeaderIsRead
<1>13. ParserInv'
  BY <1>1, <1>2, <1>8, <1>10, <1>11, <1>12 DEF ParserInv
<1>14. QED
  BY <1>3, <1>13 DEF Inv

(* The end leaves all entries before it read. *)
LEMMA EndInv ==
  ASSUME Inv, End
  PROVE  Inv'
<1>1. /\ UNCHANGED <<sent, side, data, iter, message, given>>
      /\ pc = "options" /\ pc' = "done"
      /\ iter # Len(data) => data[iter + 1] = 255
  BY DEF End
<1>2. /\ DataInv /\ data \in Seq(Byte) /\ Wire \in Seq(Entries)
      /\ message \in MessageRecords /\ HeaderIsRead /\ iter \in 0 .. Len(data)
  BY <1>1, DataHolds DEF Inv, ParserInv
<1>3. /\ DataInv' /\ Wire' = Wire /\ WireTail' = WireTail
      /\ HeaderIsBad(data) <=> HeaderIsBad(data')
  BY <1>1, <1>2, DataStays
<1>a. PICK n \in Nat : \E start : InOptions(n, start)
  BY <1>1 DEF Inv, ParserInv
<1>4. PICK start : InOptions(n, start)
  BY <1>a
<1>5. n = Len(Wire) \/ Wire[n + 1].code = 255
  <2>1. CASE iter # Len(data)
    <3>1. data[iter + 1] = 255 /\ data[iter + 1] \in {0, 255}
      BY <1>1, <2>1
    <3>2. ~BreaksOff(Rest)
      BY <1>1, <2>1, <3>1, OneByteOption
    <3>3. data[iter + 1] = Wire[n + 1].code
      BY <1>1, <1>4, <2>1, <3>2, AtNextOption
    <3>4. QED
      BY <3>1, <3>3
  <2>2. CASE iter = Len(data)
    <3>1. n < Len(Wire) => Base + 4 + start[n + 1] # Len(data)
      <4>1. Placed(data, Wire, start, WireTail) /\ n <= Len(Wire)
        BY <1>4 DEF InOptions
      <4>2. IsAtEntry(Base + 4 + start[n + 1], data, Wire, start, n)
        BY <1>2, <4>1, AtEntry
      <4>3. QED
        BY <4>2 DEF IsAtEntry
    <3>2. ~(n < Len(Wire))
      BY <1>4, <2>2, <3>1 DEF InOptions
    <3>3. Len(Wire) \in Nat /\ n <= Len(Wire)
      BY <1>2, <1>4, LenProperties DEF InOptions
    <3>4. QED
      BY <3>2, <3>3
  <2>3. QED
    BY <2>1, <2>2
<1>6. AllIsRead(n)'
  BY <1>1, <1>3, <1>4, <1>5 DEF AllIsRead, InOptions
<1>7. HeaderIsRead'
  BY <1>1, <1>2, <1>3 DEF HeaderIsRead
<1>8. ParserInv'
  BY <1>1, <1>2, <1>6, <1>7 DEF ParserInv
<1>9. QED
  BY <1>3, <1>8 DEF Inv

(* An accepted option moves the parser to the next entry. *)
LEMMA ParseOptionInv ==
  ASSUME Inv, ParseOption
  PROVE  Inv'
<1>1. /\ UNCHANGED <<sent, side, data, pc, given>>
      /\ pc = "options" /\ iter # Len(data)
      /\ Code \notin {0, 255} /\ ~BreaksOff(Rest) /\ Accepts(Code, Payload)
      /\ message' = [message EXCEPT !.options = Append(message.options, Option(Code, Payload))]
      /\ iter' = iter + 2 + Len(Payload)
  BY DEF ParseOption, AtOption
<1>2. /\ DataInv /\ data \in Seq(Byte) /\ Wire \in Seq(Entries)
      /\ message \in MessageRecords /\ HeaderIsRead
  BY <1>1, DataHolds DEF Inv, ParserInv
<1>3. /\ DataInv' /\ Wire' = Wire /\ WireTail' = WireTail
      /\ HeaderIsBad(data) <=> HeaderIsBad(data')
  BY <1>1, <1>2, DataStays
<1>a. PICK n \in Nat : \E start : InOptions(n, start)
  BY <1>1 DEF Inv, ParserInv
<1>4. PICK start : InOptions(n, start)
  BY <1>a
<1>5. PICK e : e = Wire[n + 1]
  OBVIOUS
<1>6. n < Len(Wire) /\ e \in Entries /\ Code = e.code
  BY <1>1, <1>4, <1>5, AtNextOption DEF Code
<1>7. e.code \notin {0, 255}
  BY <1>1, <1>6
<1>8. Payload = e.payload /\ iter' = Base + 4 + start[n + 2]
  BY <1>1, <1>4, <1>5, <1>7, AtNextOption
<1>9. e \in AcceptedEntries
  BY <1>1, <1>6, <1>7, <1>8 DEF AcceptedEntries
<1>10. Option(Code, Payload) = OptionOf(e)
  BY <1>6, <1>8 DEF OptionOf
<1>11. message.options \in Seq(AcceptedOptions)
  BY <1>2 DEF MessageRecords
<1>12. PICK more : more = Append(message.options, OptionOf(e))
  OBVIOUS
<1>13. ReadSoFar(message.options, Wire, n)
  BY <1>4 DEF InOptions
<1>14. OptionOf(e) \in AcceptedOptions /\ ReadSoFar(more, Wire, n + 1)
  BY <1>2, <1>5, <1>6, <1>9, <1>11, <1>12, <1>13, ReadMore
<1>15. more \in Seq(AcceptedOptions)
  BY <1>11, <1>12, <1>14, AppendProperties
<1>16. message' = [message EXCEPT !.options = more]
  BY <1>1, <1>10, <1>12
<1>17. /\ message' \in MessageRecords /\ message'.options = more
       /\ message'.op = message.op /\ message'.xid = message.xid
       /\ message'.yiaddr = message.yiaddr /\ message'.chaddr = message.chaddr
  BY <1>2, <1>15, <1>16 DEF MessageRecords
<1>18. Len(Wire) \in Nat /\ n + 1 \in Nat /\ (n + 1) + 1 = n + 2
  BY <1>2, LenProperties
<1>19. n + 1 <= Len(Wire)
  BY <1>6, <1>18
<1>20. InOptions(n + 1, start)'
  BY <1>1, <1>3, <1>4, <1>8, <1>14, <1>17, <1>18, <1>19 DEF InOptions
<1>21. iter' \in 0 .. Len(data')
  <2>1. Base + 4 + start[(n + 1) + 1] \in 0 .. Len(data)
    BY <1>2, <1>4, <1>18, <1>19, AtEntry DEF InOptions, IsAtEntry
  <2>2. QED
    BY <1>1, <1>8, <1>18, <2>1
<1>22. HeaderIsRead'
  BY <1>1, <1>2, <1>3, <1>17, ZenonT(30) DEF HeaderIsRead
<1>23. ParserInv'
  BY <1>1, <1>17, <1>18, <1>20, <1>21, <1>22 DEF ParserInv
<1>24. QED
  BY <1>3, <1>23 DEF Inv

(* A refused option is an entry the constructor does not accept. *)
LEMMA OptionThrowsInv ==
  ASSUME Inv, OptionThrows
  PROVE  Inv'
<1>1. /\ UNCHANGED <<sent, side, data, iter, message, given>> /\ pc' = "thrown"
      /\ pc = "options" /\ iter # Len(data)
      /\ Code \notin {0, 255} /\ ~BreaksOff(Rest) /\ ~Accepts(Code, Payload)
  BY DEF OptionThrows, Throw, AtOption
<1>2. /\ DataInv /\ data \in Seq(Byte) /\ Wire \in Seq(Entries)
      /\ message \in MessageRecords /\ iter \in 0 .. Len(data)
  BY <1>1, DataHolds DEF Inv, ParserInv
<1>3. DataInv' /\ Wire' = Wire /\ WireTail' = WireTail
  BY <1>1, <1>2, DataStays
<1>a. PICK n \in Nat : \E start : InOptions(n, start)
  BY <1>1 DEF Inv, ParserInv
<1>4. PICK start : InOptions(n, start)
  BY <1>a
<1>5. n < Len(Wire) /\ Code = Wire[n + 1].code
  BY <1>1, <1>4, AtNextOption DEF Code
<1>6. Payload = Wire[n + 1].payload
  BY <1>1, <1>4, <1>5, AtNextOption
<1>7. NoEnd(Wire, n)
  BY <1>4 DEF InOptions, ReadSoFar
<1>8. IsRefused(n)'
  BY <1>1, <1>3, <1>5, <1>6, <1>7 DEF IsRefused
<1>9. ParserInv'
  BY <1>1, <1>2, <1>8 DEF ParserInv
<1>10. QED
  BY <1>3, <1>9 DEF Inv

(* The parser leaves the datagram only after all of its whole options.     *)
LEMMA OverrunInv ==
  ASSUME Inv, Overrun
  PROVE  Inv'
<1>1. /\ UNCHANGED <<sent, side, data, iter, message, given>>
      /\ pc' \in {"thrown", "dead", "astray"}
      /\ pc = "options" /\ iter # Len(data) /\ BreaksOff(Rest)
  BY DEF Overrun, AtOption
<1>2. /\ DataInv /\ data \in Seq(Byte) /\ Wire \in Seq(Entries)
      /\ message \in MessageRecords /\ iter \in 0 .. Len(data) /\ HeaderIsRead
  BY <1>1, DataHolds DEF Inv, ParserInv
<1>3. /\ DataInv' /\ Wire' = Wire /\ WireTail' = WireTail
      /\ HeaderIsBad(data) <=> HeaderIsBad(data')
  BY <1>1, <1>2, DataStays
<1>4. PICK n \in Nat : \E start : InOptions(n, start)
  BY <1>1 DEF Inv, ParserInv
<1>5. PICK start : InOptions(n, start)
  BY <1>4
<1>6. n = Len(Wire)
  <2>1. PICK es, d, l : es = Wire /\ d = data /\ l = Len(es)
    OBVIOUS
  <2>2. /\ d \in Seq(Byte) /\ es \in Seq(Entries) /\ Placed(d, es, start, WireTail)
        /\ n <= Len(es) /\ iter = Base + 4 + start[n + 1]
    BY <1>2, <1>5, <2>1 DEF InOptions
  <2>3. IsAtEntry(Base + 4 + start[n + 1], d, es, start, n)
    BY <2>2, AtEntry
  <2>4. IsAtEntry(iter, d, es, start, n)
    BY <2>2, <2>3
  <2>5. data[iter + 1] \notin {0, 255}
    BY <1>1, OneByteOption
  <2>6. ~(n < Len(es))
    BY <1>1, <2>1, <2>4, <2>5 DEF IsAtEntry, Rest
  <2>7. QED
    BY <2>1, <2>2, <2>6, LenProperties
<1>7. WireTail # <<>>
  BY <1>1, <1>5, <1>6, LeftIsTail
<1>8. ReadSoFar(message.options, Wire, Len(Wire))
  BY <1>5, <1>6 DEF InOptions
<1>9. IsCut'
  BY <1>1, <1>3, <1>7, <1>8 DEF IsCut
<1>10. ~HeaderIsBad(data')
  BY <1>2, <1>3 DEF HeaderIsRead
<1>11. ParserInv'
  BY <1>1, <1>2, <1>9, <1>10 DEF ParserInv
<1>12. QED
  BY <1>3, <1>11 DEF Inv

-----------------------------------------------------------------------------
(* The answer, and the invariant *)

(* The first option with a code, as the code looks for it. *)
LEMMA SelectedOption ==
  ASSUME NEW k \in 1 .. Len(message.options), message.options[k].code = 53
  PROVE  MessageType = message.options[First(message.options, 53)].real_values[1].bytes[1]
<1>1. PICK I : I = { i \in 1 .. Len(message.options) : message.options[i].code = 53 }
  OBVIOUS
<1>2. I # {}
  BY <1>1
<1>3. SelectInSeq(message.options, LAMBDA o : o.code = 53) = IF I # {} THEN Min(I) ELSE 0
  BY <1>1, Zenon DEF SelectInSeq
<1>4. First(message.options, 53) = Min(I)
  BY <1>1 DEF First
<1>5. QED
  BY <1>2, <1>3, <1>4, Zenon DEF MessageType

(* The type of the answer follows the first message type that was sent. *)
LEMMA SelectedEntry ==
  ASSUME NEW k \in 1 .. Len(sent.entries), sent.entries[k].code = 53
  PROVE  AnswerType = IF sent.entries[First(sent.entries, 53)].payload = <<DHCPDISCOVER>>
                      THEN DHCPOFFER ELSE DHCPACK
<1>1. PICK I : I = { i \in 1 .. Len(sent.entries) : sent.entries[i].code = 53 }
  OBVIOUS
<1>2. I # {}
  BY <1>1
<1>3. SelectInSeq(sent.entries, LAMBDA e : e.code = 53) = IF I # {} THEN Min(I) ELSE 0
  BY <1>1, Zenon DEF SelectInSeq
<1>4. First(sent.entries, 53) = Min(I)
  BY <1>1 DEF First
<1>5. QED
  BY <1>2, <1>3, <1>4, Zenon DEF AnswerType

(* What the server read of the message is what the client sent. *)
LEMMA ServerRead ==
  ASSUME Inv, side = "server", HeaderIsRead
  PROVE  /\ sent \in Messages
         /\ sent.chaddr # <<>>
         /\ message.xid = sent.xid
         /\ message.chaddr = sent.chaddr
         /\ sent.xid \in Seq(Byte) /\ Len(sent.xid) = 4
         /\ sent.chaddr \in Seq(Byte) /\ Len(sent.chaddr) = 6
         /\ Wire = sent.entries
<1>1. sent \in Messages /\ data = Datagram(sent)
  BY SentAssumption DEF Inv, DataInv
<1>2. sent.chaddr # <<>>
  BY <1>1, ServerHeader DEF HeaderIsRead
<1>3. SubSeq(data, 5, 8) = sent.xid /\ SubSeq(data, 29, 34) = sent.chaddr
  BY <1>1, <1>2, DatagramLayout
<1>4. message.xid = sent.xid /\ message.chaddr = sent.chaddr
  BY <1>3 DEF HeaderIsRead
<1>5. /\ sent.xid \in Seq(Byte) /\ Len(sent.xid) = 4
      /\ sent.chaddr \in Seq(Byte) /\ Len(sent.chaddr) = 6
  BY <1>1, <1>2, MessageFields
<1>6. QED
  BY <1>1, <1>2, <1>4, <1>5 DEF Wire

(* The answer to what was sent starts the parser of the client. *)
LEMMA ReplyInv ==
  ASSUME Inv, Reply
  PROVE  Inv'
<1>1. PICK ip \in Addresses :
        /\ given' = ip
        /\ data' = to_network_data(make_reply(IF MessageType = DHCPDISCOVER
                                              THEN DHCPOFFER ELSE DHCPACK, ip))
  BY DEF Reply
<1>2. /\ pc = "done" /\ side = "server" /\ side' = "client" /\ sent' = sent
      /\ iter' = 0 /\ message' = EmptyMessage /\ pc' = "header"
      /\ \E k \in DOMAIN message.options : message.options[k].code = 53
      /\ MessageType \in {DHCPDISCOVER, DHCPREQUEST}
  BY DEF Reply
<1>3. HeaderIsRead /\ message \in MessageRecords
  BY <1>2 DEF Inv, ParserInv
<1>4. PICK n \in Nat : AllIsRead(n)
  BY <1>2 DEF Inv, ParserInv
<1>5. /\ sent \in Messages /\ sent.chaddr # <<>>
      /\ message.xid = sent.xid /\ message.chaddr = sent.chaddr
      /\ sent.xid \in Seq(Byte) /\ Len(sent.xid) = 4
      /\ sent.chaddr \in Seq(Byte) /\ Len(sent.chaddr) = 6
      /\ Wire = sent.entries
  BY <1>2, <1>3, ServerRead
<1>6. PICK es, options : es = sent.entries /\ options = message.options
  OBVIOUS
<1>7. es \in Seq(Entries) /\ options \in Seq(AcceptedOptions)
  BY <1>3, <1>5, <1>6, MessageFields DEF MessageRecords
<1>8. n <= Len(es) /\ ReadSoFar(options, es, n)
  BY <1>4, <1>5, <1>6 DEF AllIsRead
<1>9. PICK k \in 1 .. Len(options) : options[k].code = 53
  BY <1>2, <1>6, <1>7, LenProperties
<1>10. PICK i \in 1 .. n :
         /\ es[i] \in AcceptedEntries
         /\ es[i].code = 53
         /\ options[First(options, 53)] = OptionOf(es[i])
         /\ \A j \in 1 .. n : es[j].code = 53 => i <= j
  <2>1. PICK c : c = 53
    OBVIOUS
  <2>2. options[k].code = c
    BY <1>9, <2>1
  <2>3. \E i \in 1 .. n : IsFirstEntry(i, options, es, n, c)
    BY <1>7, <1>8, <2>2, FirstRead
  <2>4. QED
    BY <2>1, <2>3 DEF IsFirstEntry
<1>11. i \in 1 .. Len(es) /\ Len(es) \in Nat
  BY <1>7, <1>8, LenProperties
<1>12. First(es, 53) = i
  <2>1. PICK g : g = First(es, 53)
    OBVIOUS
  <2>2. g \in 1 .. Len(es) /\ es[g].code = 53 /\ g <= i
    BY <1>10, <1>11, <2>1, FirstIs
  <2>3. g \in 1 .. n
    BY <1>11, <2>2
  <2>4. i <= g
    BY <1>10, <2>2, <2>3
  <2>5. QED
    BY <2>1, <2>2, <2>3, <2>4
<1>13. MessageType = es[i].payload[1] /\ (es[i].payload = <<1>> <=> es[i].payload[1] = 1)
  <2>1. MessageType = options[First(options, 53)].real_values[1].bytes[1]
    BY <1>6, <1>9, SelectedOption
  <2>2. /\ OptionOf(es[i]).real_values[1].bytes = es[i].payload
        /\ es[i].payload = <<1>> <=> es[i].payload[1] = 1
    BY <1>10, MessageTypeOption
  <2>3. QED
    BY <1>10, <2>1, <2>2
<1>14. AnswerType = IF MessageType = DHCPDISCOVER THEN DHCPOFFER ELSE DHCPACK
  <2>1. AnswerType = IF es[i].payload = <<DHCPDISCOVER>> THEN DHCPOFFER ELSE DHCPACK
    BY <1>6, <1>10, <1>11, <1>12, SelectedEntry
  <2>2. DHCPDISCOVER = 1
    BY DEF DHCPDISCOVER
  <2>3. es[i].payload = <<DHCPDISCOVER>> <=> MessageType = DHCPDISCOVER
    BY <1>13, <2>2
  <2>4. QED
    BY <2>1, <2>3
<1>15. AnswerType' = AnswerType
  BY <1>2 DEF AnswerType, SelectInSeq
<1>16. data' = to_network_data(make_reply(AnswerType, ip))
  BY <1>1, <1>14
<1>17. AnswerIs(to_network_data(make_reply(AnswerType, ip)), AnswerType, ip, sent.xid, sent.chaddr)
  <2>1. ip \in FourBytes
    BY AddressesAssumption
  <2>2. /\ message.xid \in Seq(Byte) /\ Len(message.xid) = 4
        /\ message.chaddr \in Seq(Byte) /\ Len(message.chaddr) = 6
    BY <1>5
  <2>3. AnswerIs(to_network_data(make_reply(AnswerType, ip)), AnswerType, ip,
                 message.xid, message.chaddr)
    BY <2>1, <2>2, AnswerTypeIs, ReplyLayout
  <2>4. QED
    BY <1>5, <2>3
<1>18. DataInv'
  BY <1>1, <1>2, <1>5, <1>15, <1>16, <1>17 DEF DataInv, Inv
<1>19. data' \in Seq(Byte)
  BY <1>16, <1>17 DEF AnswerIs
<1>20. iter' \in 0 .. Len(data')
  BY <1>2, <1>19, LenProperties
<1>21. ParserInv'
  BY <1>2, <1>20, EmptyIsRecord DEF ParserInv
<1>22. QED
  BY <1>18, <1>21 DEF Inv

(* The invariant holds in every state: the datagram lies as it was         *)
(* written, by the client or by the server, and the parser of              *)
(* DhcpMessage(data) has read of it what lies before its position.         *)
THEOREM DhcpMessageInvariant == Spec => []Inv
<1>1. Init => Inv
  BY InitInv
<1>2. Inv /\ [Next]_vars => Inv'
  <2> SUFFICES ASSUME Inv, [Next]_vars PROVE Inv'
    OBVIOUS
  <2>1. CASE HeaderThrows
    BY <2>1, HeaderThrowsInv
  <2>2. CASE ParseHeader
    BY <2>2, ParseHeaderInv
  <2>3. CASE Pad
    BY <2>3, PadInv
  <2>4. CASE End
    BY <2>4, EndInv
  <2>5. CASE ParseOption
    BY <2>5, ParseOptionInv
  <2>6. CASE OptionThrows
    BY <2>6, OptionThrowsInv
  <2>7. CASE Reply
    BY <2>7, ReplyInv
  <2>8. CASE UNCHANGED vars
    <3>1. UNCHANGED <<sent, side, data, iter, message, pc, given>>
      BY <2>8 DEF vars
    <3>2. /\ DataInv' /\ Wire' = Wire /\ WireTail' = WireTail
          /\ HeaderIsBad(data) <=> HeaderIsBad(data')
      BY <3>1, DataStays DEF Inv
    <3>3. HeaderIsRead' = HeaderIsRead
      BY <3>1 DEF HeaderIsRead
    <3>4. /\ \A n, start : InOptions(n, start)' = InOptions(n, start)
          /\ \A n : AllIsRead(n)' = AllIsRead(n)
          /\ \A n : IsRefused(n)' = IsRefused(n)
          /\ IsCut' = IsCut
      BY <3>1, <3>2 DEF InOptions, AllIsRead, IsRefused, IsCut
    <3>5. ParserInv'
      BY <3>1, <3>2, <3>3, <3>4 DEF Inv, ParserInv
    <3>6. QED
      BY <3>2, <3>5 DEF Inv
  <2>9. CASE Overrun
    BY <2>9, OverrunInv
  <2>10. QED
    BY <2>1, <2>2, <2>3, <2>4, <2>5, <2>6, <2>7, <2>8, <2>9 DEF Next, Parse
<1>3. QED
  BY <1>1, <1>2, PTL DEF Spec

-----------------------------------------------------------------------------
(* Theorems about the parser *)

(* Every option of the message was made of an accepted entry. *)
LEMMA OptionsAreAccepted ==
  ASSUME Inv
  PROVE  /\ message.options \in Seq(AcceptedOptions)
         /\ DOMAIN message.options = 1 .. Len(message.options)
         /\ \A i \in DOMAIN message.options :
              \E e \in AcceptedEntries : message.options[i] = OptionOf(e)
<1>1. message.options \in Seq(AcceptedOptions)
  BY DEF Inv, ParserInv, MessageRecords
<1>2. DOMAIN message.options = 1 .. Len(message.options)
  BY <1>1, LenProperties
<1>3. \A i \in DOMAIN message.options : message.options[i] \in AcceptedOptions
  BY <1>1, <1>2, ElementOfSeq
<1>4. QED
  BY <1>1, <1>2, <1>3 DEF AcceptedOptions

(* The variables keep their types: the position of the parser never        *)
(* leaves the datagram, and every option it made is of a known code with   *)
(* bytes for its values.                                                   *)
THEOREM DhcpMessageTypeCorrect == Spec => []TypeOK
<1>1. Inv => TypeOK
  <2> SUFFICES ASSUME Inv PROVE TypeOK
    OBVIOUS
  <2>1. data \in Seq(Byte)
    BY DataHolds DEF Inv
  <2>2. /\ sent \in Sent /\ side \in {"server", "client"} /\ iter \in 0 .. Len(data)
        /\ pc \in {"header", "options", "done", "thrown", "dead", "astray"}
        /\ given \in {<<>>} \cup Addresses
    BY DEF Inv, DataInv, ParserInv
  <2>3. ASSUME NEW i \in DOMAIN message.options
        PROVE  /\ message.options[i].code \in Known
               /\ \A v \in DOMAIN message.options[i].real_values :
                    message.options[i].real_values[v].bytes \in Seq(Byte)
    <3>1. PICK e \in AcceptedEntries : message.options[i] = OptionOf(e)
      BY OptionsAreAccepted
    <3>2. PICK c, p : c = e.code /\ p = e.payload
      OBVIOUS
    <3>3. /\ p \in Seq(Byte) /\ c \notin {0, 255} /\ Accepts(c, p) /\ HasWholeElements(c, p)
      BY <3>2, EntryType DEF AcceptedEntries
    <3>4. c \in Known \ {0, 255} /\ WholeLength(c, p)
      BY <3>3, AcceptedLength
    <3>5. \A v \in DOMAIN real_values(c, p) : real_values(c, p)[v].bytes \in Seq(Byte)
      BY <3>3, <3>4, AcceptedValues
    <3>6. message.options[i].code = c /\ message.options[i].real_values = real_values(c, p)
      BY <3>1, <3>2 DEF OptionOf, Option
    <3>7. QED
      BY <3>4, <3>5, <3>6
  <2>4. QED
    BY <2>1, <2>2, <2>3 DEF TypeOK
<1>2. QED
  BY <1>1, DhcpMessageInvariant, PTL

(* What was read so far is what was sent. *)
LEMMA AsSent ==
  ASSUME NEW options \in Seq(AcceptedOptions), NEW es \in Seq(Entries), NEW n \in Nat,
         ReadSoFar(options, es, n)
  PROVE  AreOptionsOf(options, es, n)
<1>1. DOMAIN options = 1 .. Len(options) /\ Len(es) \in Nat
  BY LenProperties
<1>2. PICK of : ReadAt(of, options, es, n)
  BY DEF ReadSoFar
<1>3. /\ of \in [DOMAIN options -> 1 .. n]
      /\ \A j, k \in DOMAIN options : j < k => of[j] < of[k]
      /\ \A k \in DOMAIN options : options[k] = OptionOf(es[of[k]])
      /\ \A i \in 1 .. n : es[i].code # 0 <=> \E k \in DOMAIN options : of[k] = i
  BY <1>1, <1>2 DEF ReadAt
<1>4. ASSUME NEW k \in DOMAIN options PROVE IsOptionOf(options[k], es[of[k]])
  <2>1. PICK i \in 1 .. n : i = of[k]
    BY <1>3
  <2>2. i \in 1 .. Len(es)
    BY <1>1 DEF ReadSoFar
  <2>3. PICK e \in Entries : e = es[i]
    BY <2>2, ElementOfSeq
  <2>4. e.code # 0
    BY <1>3, <2>1, <2>3
  <2>5. e.code # 255
    BY <2>3 DEF ReadSoFar, NoEnd
  <2>6. Accepts(e.code, e.payload)
    BY <2>3, <2>4 DEF ReadSoFar
  <2>7. IsOptionOf(Option(e.code, e.payload), e)
    BY <2>4, <2>5, <2>6, AcceptedOption
  <2>8. options[k] = Option(e.code, e.payload)
    BY <1>3, <2>1, <2>3 DEF OptionOf
  <2>9. QED
    BY <2>1, <2>3, <2>7, <2>8
<1>5. QED
  BY <1>3, <1>4 DEF AreOptionsOf

(* At every step of DhcpMessage(data) the options are those of some first  *)
(* entries of what the client sent, in their order, and at last those of   *)
(* all entries before the end.                                             *)
THEOREM WhatWasSentIsRead == Spec => []ReadsWhatWasSent
<1>1. Inv => ReadsWhatWasSent
  <2> SUFFICES ASSUME Inv, pc \in {"options", "done"}, side = "server"
               PROVE  \E n \in 0 .. Len(sent.entries) :
                        /\ NoEnd(sent.entries, n)
                        /\ AreOptionsOf(message.options, sent.entries, n)
                        /\ pc = "done" => n = Len(sent.entries) \/ sent.entries[n + 1].code = 255
    BY DEF ReadsWhatWasSent
  <2>1. Wire = sent.entries
    BY DEF Wire
  <2>2. sent.entries \in Seq(Entries) /\ message.options \in Seq(AcceptedOptions)
    BY <2>1, DataHolds, OptionsAreAccepted DEF Inv
  <2>3. PICK n \in Nat : /\ ReadSoFar(message.options, sent.entries, n)
                         /\ pc = "done" =>
                              n = Len(sent.entries) \/ sent.entries[n + 1].code = 255
    <3>1. CASE pc = "options"
      BY <2>1, <3>1 DEF Inv, ParserInv, InOptions
    <3>2. CASE pc = "done"
      BY <2>1, <3>2 DEF Inv, ParserInv, AllIsRead
    <3>3. QED
      BY <3>1, <3>2
  <2>4. AreOptionsOf(message.options, sent.entries, n)
    BY <2>2, <2>3, AsSent
  <2>5. n \in 0 .. Len(sent.entries) /\ NoEnd(sent.entries, n)
    BY <2>3 DEF ReadSoFar
  <2>6. QED
    BY <2>3, <2>4, <2>5
<1>2. QED
  BY <1>1, DhcpMessageInvariant, PTL

(* The entries before the end, for any message. *)
LEMMA ReachedEntry ==
  ASSUME NEW m \in Messages
  PROVE  /\ m.entries \in Seq(Entries)
         /\ DOMAIN m.entries = 1 .. Len(m.entries)
         /\ Len(m.entries) \in Nat
         /\ \A i \in Reached(m) :
              /\ i \in 1 .. Len(m.entries) /\ NoEnd(m.entries, i)
              /\ m.entries[i] \in Entries /\ m.entries[i].code \notin {0, 255}
              /\ Accepts(m.entries[i].code, m.entries[i].payload)
                   <=> Legal(m.entries[i]) \/ Short(m.entries[i])
<1>1. PICK es : es = m.entries
  OBVIOUS
<1>2. es \in Seq(Entries) /\ DOMAIN es = 1 .. Len(es) /\ Len(es) \in Nat
  BY <1>1, MessageFields, LenProperties
<1>3. ASSUME NEW i \in Reached(m)
      PROVE  /\ i \in 1 .. Len(es) /\ NoEnd(es, i)
             /\ es[i] \in Entries /\ es[i].code \notin {0, 255}
             /\ Accepts(es[i].code, es[i].payload) <=> Legal(es[i]) \/ Short(es[i])
  <2>1. i \in 1 .. Len(es) /\ NoEnd(es, i) /\ es[i].code # 0
    BY <1>1, <1>2 DEF Reached
  <2>2. es[i].code # 255
    BY <2>1 DEF NoEnd
  <2>3. es[i] \in Entries
    BY <1>2, <2>1, ElementOfSeq
  <2>4. QED
    BY <2>1, <2>2, <2>3, AcceptsIsLegal
<1>4. QED
  BY <1>1, <1>2, <1>3

(* The server's parser refuses a bad fixed part, and nothing else of it. *)
LEMMA FixedPartIsBad ==
  ASSUME Inv, side = "server"
  PROVE  /\ sent \in Messages /\ Wire = sent.entries /\ WireTail = sent.tail
         /\ HeaderIsBad(data) <=> BadFixedPart(sent)
<1>1. /\ sent \in Messages /\ data = Datagram(sent)
      /\ Wire = sent.entries /\ WireTail = sent.tail
  BY SentAssumption DEF Inv, DataInv, Wire, WireTail
<1>2. QED
  BY <1>1, ServerHeader DEF BadFixedPart

(* What the server writes is neither refused nor does it break off. *)
LEMMA ClientStays ==
  ASSUME Inv, side = "client"
  PROVE  pc \notin {"thrown", "dead", "astray"}
<1>1. /\ data \in Seq(Byte) /\ Len(data) >= Base + 4 /\ data[2] = 1
      /\ SubSeq(data, Base + 1, Base + 4) = MagicCookie
  BY DEF Inv, DataInv, AnswerIs
<1>2. ~HeaderIsBad(data)
  <2>1. ~(Len(data) < Base)
    BY <1>1, LenProperties, BaseLength
  <2>2. QED
    BY <1>1, <2>1 DEF HeaderIsBad
<1>3. Wire = WireEntries(AnswerType) /\ ~IsCut
  BY DEF Wire, IsCut, WireTail
<1>4. ASSUME NEW n \in Nat, IsRefused(n) PROVE FALSE
  <2>1. /\ n < Len(Wire) /\ Wire[n + 1].code \notin {0, 255}
        /\ ~Accepts(Wire[n + 1].code, Wire[n + 1].payload)
    BY <1>4 DEF IsRefused
  <2>2. /\ Len(Wire) = 5
        /\ \A i \in 1 .. 5 : /\ Wire[i].code = WireCode(i)
                             /\ Wire[i].payload = WirePayload(AnswerType, i)
    BY <1>3, AnswerTypeIs, WireEntriesType
  <2>3. n + 1 \in 1 .. 5
    BY <2>1, <2>2
  <2>4. n + 1 # 5
    BY <2>1, <2>2, <2>3 DEF WireCode
  <2>5. n + 1 \in 1 .. 4
    BY <2>3, <2>4
  <2>6. Accepts(WireCode(n + 1), WirePayload(AnswerType, n + 1))
    BY <2>5, AnswerTypeIs, WireAccepted
  <2>7. QED
    BY <2>1, <2>2, <2>3, <2>6
<1>5. QED
  BY <1>2, <1>3, <1>4 DEF Inv, ParserInv

(* DhcpMessage(data) throws only if the fixed part is bad, an option it    *)
(* reaches is forbidden by options_descriptions, or one breaks off: for    *)
(* any message, and never for an answer of the server.                     *)
THEOREM OnlyIllegalIsRefused == Spec => []RefusesOnlyIllegal
<1>1. Inv => RefusesOnlyIllegal
  <2> SUFFICES ASSUME Inv, pc = "thrown"
               PROVE  /\ side = "server"
                      /\ \/ BadFixedPart(sent)
                         \/ ~IsWhole(sent)
                         \/ \E i \in Reached(sent) : ~Legal(sent.entries[i])
    BY DEF RefusesOnlyIllegal
  <2>1. side = "server"
    BY ClientStays DEF Inv, DataInv
  <2>2. /\ sent \in Messages /\ Wire = sent.entries /\ WireTail = sent.tail
        /\ HeaderIsBad(data) <=> BadFixedPart(sent)
    BY <2>1, FixedPartIsBad
  <2>3. CASE IsCut
    BY <2>1, <2>2, <2>3 DEF IsCut, ReadSoFar, IsWhole
  <2>4. ASSUME NEW n \in Nat, IsRefused(n)
        PROVE  \E i \in Reached(sent) : ~Legal(sent.entries[i])
    <3>1. PICK es : es = sent.entries
      OBVIOUS
    <3>2. DOMAIN es = 1 .. Len(es) /\ Len(es) \in Nat
      BY <2>2, <3>1, ReachedEntry
    <3>3. /\ n < Len(es) /\ NoEnd(es, n) /\ es[n + 1].code \notin {0, 255}
          /\ ~Accepts(es[n + 1].code, es[n + 1].payload)
      BY <2>2, <2>4, <3>1 DEF IsRefused
    <3>4. n + 1 \in DOMAIN es
      BY <3>2, <3>3
    <3>5. NoEnd(es, n + 1)
      <4>1. \A i \in 1 .. n + 1 : i \in 1 .. n \/ i = n + 1
        OBVIOUS
      <4>2. QED
        BY <3>3, <4>1 DEF NoEnd
    <3>6. n + 1 \in Reached(sent)
      BY <3>1, <3>3, <3>4, <3>5 DEF Reached
    <3>7. ~Legal(es[n + 1])
      BY <2>2, <3>1, <3>3, <3>6, ReachedEntry
    <3>8. QED
      BY <3>1, <3>6, <3>7
  <2>5. HeaderIsBad(data) \/ IsCut \/ \E n \in Nat : IsRefused(n)
    BY DEF Inv, ParserInv
  <2>6. QED
    BY <2>1, <2>2, <2>3, <2>4, <2>5
<1>2. QED
  BY <1>1, DhcpMessageInvariant, PTL

(* A message DhcpMessage(data) reads to its end, or to an option that      *)
(* breaks off, is legal so far, but for options below a minimum length     *)
(* that the constructor does not look at (Short): for any message.         *)
THEOREM OnlyLegalOrShortIsAccepted == Spec => []AcceptsOnlyLegalOrShort
<1>1. Inv => AcceptsOnlyLegalOrShort
  <2> SUFFICES ASSUME Inv, pc \in {"done", "dead", "astray"}, side = "server"
               PROVE  /\ ~BadFixedPart(sent)
                      /\ \A i \in Reached(sent) :
                           Legal(sent.entries[i]) \/ Short(sent.entries[i])
    BY DEF AcceptsOnlyLegalOrShort
  <2>1. /\ sent \in Messages /\ Wire = sent.entries /\ WireTail = sent.tail
        /\ HeaderIsBad(data) <=> BadFixedPart(sent)
    BY FixedPartIsBad
  <2>2. ~HeaderIsBad(data)
    BY DEF Inv, ParserInv, HeaderIsRead
  <2>3. PICK es : es = sent.entries
    OBVIOUS
  <2>4. Len(es) \in Nat
    BY <2>1, <2>3, ReachedEntry
  <2>5. PICK n \in Nat : /\ n = Len(es) \/ es[n + 1].code = 255
                         /\ ReadSoFar(message.options, es, n)
    <3>1. CASE pc = "done"
      BY <2>1, <2>3, <3>1 DEF Inv, ParserInv, AllIsRead
    <3>2. CASE pc \in {"dead", "astray"}
      BY <2>1, <2>3, <2>4, <3>2 DEF Inv, ParserInv, IsCut
    <3>3. QED
      BY <3>1, <3>2
  <2>6. ASSUME NEW i \in Reached(sent)
        PROVE  Legal(es[i]) \/ Short(es[i])
    <3>1. /\ i \in 1 .. Len(es) /\ NoEnd(es, i) /\ es[i].code \notin {0, 255}
          /\ Accepts(es[i].code, es[i].payload) <=> Legal(es[i]) \/ Short(es[i])
      BY <2>1, <2>3, ReachedEntry
    <3>2. i <= n
      <4>1. CASE n = Len(es)
        BY <3>1, <4>1
      <4>2. CASE es[n + 1].code = 255
        <5>1. ~(n + 1 \in 1 .. i)
          BY <3>1, <4>2 DEF NoEnd
        <5>2. QED
          BY <2>4, <3>1, <5>1
      <4>3. QED
        BY <2>5, <4>1, <4>2
    <3>3. i \in 1 .. n
      BY <3>1, <3>2
    <3>4. Accepts(es[i].code, es[i].payload)
      BY <2>5, <3>1, <3>3 DEF ReadSoFar
    <3>5. QED
      BY <3>1, <3>4
  <2>7. QED
    BY <2>1, <2>2, <2>3, <2>6
<1>2. QED
  BY <1>1, DhcpMessageInvariant, PTL

(* The loop of DhcpMessage(data) reads nothing behind the datagram, unless *)
(* an option it reaches breaks off: for any message, and never in an       *)
(* answer of the server.                                                   *)
THEOREM ParserStaysInside == Spec => []StaysInside
<1>1. Inv => StaysInside
  <2> SUFFICES ASSUME Inv, pc \in {"dead", "astray"}
               PROVE  side = "server" /\ ~IsWhole(sent)
    BY DEF StaysInside
  <2>1. side = "server"
    BY ClientStays DEF Inv, DataInv
  <2>2. Wire = sent.entries /\ WireTail = sent.tail
    BY <2>1, FixedPartIsBad
  <2>3. IsCut
    BY DEF Inv, ParserInv
  <2>4. QED
    BY <2>1, <2>2, <2>3 DEF IsCut, ReadSoFar, IsWhole
<1>2. QED
  BY <1>1, DhcpMessageInvariant, PTL

(* What the client reads of an option of the answer. *)
LEMMA ClientReads ==
  ASSUME Inv, side = "client", NEW n \in Nat, AllIsRead(n), NEW i \in 1 .. 3
  PROVE  LET f == First(message.options, WireCode(i))
         IN  /\ \E k \in 1 .. Len(message.options) : message.options[k].code = WireCode(i)
             /\ message.options[f].real_values[1].bytes = ReplyEntries(AnswerType)[i].payload
<1>1. PICK es, options : es = Wire /\ options = message.options
  OBVIOUS
<1>2. /\ es \in Seq(Entries) /\ Len(es) = 5
      /\ \A j \in 1 .. 5 : es[j].code = WireCode(j) /\ es[j].payload = WirePayload(AnswerType, j)
  BY <1>1, AnswerTypeIs, WireEntriesType DEF Wire
<1>3. options \in Seq(AcceptedOptions)
  BY <1>1, OptionsAreAccepted
<1>4. ReadSoFar(options, es, n) /\ n <= 5 /\ (n = 5 \/ es[n + 1].code = 255)
  BY <1>1, <1>2 DEF AllIsRead
<1>5. n = 4
  <2>1. n # 5
    <3>1. WireCode(5) = 255 /\ 5 \in 1 .. 5
      BY DEF WireCode
    <3>2. es[5].code = 255
      BY <1>2, <3>1
    <3>3. n = 5 => 5 \in 1 .. n
      OBVIOUS
    <3>4. QED
      BY <1>4, <3>2, <3>3 DEF ReadSoFar, NoEnd
  <2>2. n + 1 \in 1 .. 5 /\ es[n + 1].code = 255
    BY <1>4, <2>1
  <2>3. WireCode(n + 1) = 255
    BY <1>2, <2>2
  <2>4. n + 1 = 5
    BY <2>2, <2>3 DEF WireCode
  <2>5. QED
    BY <2>4
<1>6. PICK c : c = WireCode(i)
  OBVIOUS
<1>7. i \in 1 .. n /\ i \in 1 .. 5 /\ i \in 1 .. 4
  BY <1>5
<1>8. PICK k \in 1 .. Len(options) : options[k].code = c
  <2>1. PICK of : ReadAt(of, options, es, n)
    BY <1>4 DEF ReadSoFar
  <2>2. es[i].code = c /\ c # 0
    <3>1. es[i].code = c
      BY <1>2, <1>6, <1>7
    <3>2. c # 0
      BY <1>6, <1>7, WireTypes
    <3>3. QED
      BY <3>1, <3>2
  <2>3. PICK k \in 1 .. Len(options) : of[k] = i
    BY <1>7, <2>1, <2>2 DEF ReadAt
  <2>4. options[k] = OptionOf(es[i])
    BY <2>1, <2>3 DEF ReadAt
  <2>5. options[k].code = c
    BY <2>2, <2>4 DEF OptionOf, Option
  <2>6. QED
    BY <2>5
<1>9. PICK j \in 1 .. n : IsFirstEntry(j, options, es, n, c)
  BY <1>2, <1>3, <1>4, <1>8, FirstRead
<1>10. j = i
  <2>1. j \in 1 .. 4
    BY <1>5
  <2>2. es[j].code = c
    BY <1>9 DEF IsFirstEntry
  <2>3. WireCode(j) = WireCode(i)
    <3>1. j \in 1 .. 5
      BY <2>1
    <3>2. QED
      BY <1>2, <1>6, <2>2, <3>1
  <2>4. QED
    BY <1>7, <2>1, <2>3 DEF WireCode
<1>11. options[First(options, c)] = OptionOf(es[i])
  BY <1>9, <1>10 DEF IsFirstEntry
<1>12. PICK o : o = options[First(options, c)]
  OBVIOUS
<1>13. PICK p : p = WirePayload(AnswerType, i)
  OBVIOUS
<1>14. o = Option(c, p)
  BY <1>2, <1>6, <1>7, <1>11, <1>12, <1>13 DEF OptionOf
<1>15. /\ c \in Known \ {0, 255} /\ PayloadType(c) \notin Whole /\ PayloadType(c) # "FLAG"
       /\ Size(c) = IF i = 1 THEN 1 ELSE 4
  BY <1>6, <1>7, WireTypes
<1>16. p \in Seq(Byte) /\ Len(p) = Size(c)
  <2>1. p \in Seq(Byte) /\ Len(p) = IF i = 1 THEN 1 ELSE IF i = 5 THEN 0 ELSE 4
    BY <1>7, <1>13, AnswerTypeIs, WireBytes
  <2>2. i # 5
    OBVIOUS
  <2>3. Len(p) = IF i = 1 THEN 1 ELSE 4
    BY <2>1, <2>2
  <2>4. Len(p) = Size(c)
    BY <1>15, <2>3
  <2>5. QED
    BY <2>1, <2>4
<1>17. o.real_values[1].bytes = p
  <2>1. o.real_values = real_values(c, p)
    BY <1>14 DEF Option
  <2>2. real_values(c, p)[1].bytes = p
    <3>1. c \in Known \ {0, 255} /\ PayloadType(c) \notin Whole /\ PayloadType(c) # "FLAG"
      BY <1>15
    <3>2. QED
      BY <1>16, <3>1, OneValue
  <2>3. QED
    BY <2>1, <2>2
<1>18. ReplyEntries(AnswerType)[i].payload = p
  <2>1. i # 4
    OBVIOUS
  <2>2. QED
    BY <1>7, <1>13, <2>1, ReplyEntry
<1>19. QED
  BY <1>1, <1>6, <1>8, <1>12, <1>17, <1>18

-----------------------------------------------------------------------------
(* Theorems about the answer *)

(* The first option with a code, as the client looks for it. *)
LEMMA ReadIs ==
  ASSUME NEW k \in 1 .. Len(message.options), NEW code, message.options[k].code = code
  PROVE  Read(code) = message.options[First(message.options, code)].real_values[1].bytes
<1>1. PICK I : I = { i \in 1 .. Len(message.options) : message.options[i].code = code }
  OBVIOUS
<1>2. I # {}
  BY <1>1
<1>3. SelectInSeq(message.options, LAMBDA o : o.code = code) = IF I # {} THEN Min(I) ELSE 0
  BY <1>1, Zenon DEF SelectInSeq
<1>4. First(message.options, code) = Min(I)
  BY <1>1 DEF First
<1>5. QED
  BY <1>2, <1>3, <1>4, Zenon DEF Read

(* The answer the client should read. *)
LEMMA AnswerIsReply == Answer = ReplyEntries(AnswerType)
BY Zenon DEF Answer, AnswerType

(* What make_offer, make_acknowledge and to_network_data write is never    *)
(* refused by the same parser at the client, who reads its own             *)
(* transaction and hardware address, the address it was given, the type    *)
(* of the answer, the mask and the router.                                 *)
THEOREM ReplyIsRead == Spec => []ReplyIsUnderstood
<1>1. Inv => ReplyIsUnderstood
  <2> SUFFICES ASSUME Inv, side = "client" PROVE ReplyIsUnderstood
    BY DEF ReplyIsUnderstood
  <2>1. /\ data \in Seq(Byte) /\ Len(data) >= Base + 4
        /\ data[1] = 2 /\ data[2] = 1
        /\ SubSeq(data, 5, 8) = sent.xid
        /\ SubSeq(data, 17, 20) = given
        /\ SubSeq(data, 29, 34) = sent.chaddr
        /\ SubSeq(data, Base + 1, Base + 4) = MagicCookie
    BY DEF Inv, DataInv, AnswerIs
  <2>2. pc # "thrown"
    BY ClientStays
  <2>3. ASSUME pc = "done"
        PROVE  /\ message.op = 2
               /\ message.xid = sent.xid
               /\ message.chaddr = sent.chaddr
               /\ message.yiaddr = given
               /\ Read(53) = Answer[1].payload
               /\ Read(1) = Answer[2].payload
               /\ Read(3) = Answer[3].payload
    <3>1. /\ message.op = 2 /\ message.xid = sent.xid
          /\ message.chaddr = sent.chaddr /\ message.yiaddr = given
      BY <2>1, <2>3 DEF Inv, ParserInv, HeaderIsRead
    <3>2. PICK n \in Nat : AllIsRead(n)
      BY <2>3 DEF Inv, ParserInv
    <3>3. ASSUME NEW i \in 1 .. 3 PROVE Read(WireCode(i)) = Answer[i].payload
      <4>1. PICK c : c = WireCode(i)
        OBVIOUS
      <4>2. /\ \E k \in 1 .. Len(message.options) : message.options[k].code = c
            /\ message.options[First(message.options, c)].real_values[1].bytes
                 = ReplyEntries(AnswerType)[i].payload
        BY <3>2, <4>1, ClientReads
      <4>3. Read(c) = message.options[First(message.options, c)].real_values[1].bytes
        BY <4>2, ReadIs
      <4>4. QED
        BY <4>1, <4>2, <4>3, AnswerIsReply
    <3>4. WireCode(1) = 53 /\ WireCode(2) = 1 /\ WireCode(3) = 3
      BY DEF WireCode
    <3>5. 1 \in 1 .. 3 /\ 2 \in 1 .. 3 /\ 3 \in 1 .. 3
      OBVIOUS
    <3>6. /\ Read(WireCode(1)) = Answer[1].payload
          /\ Read(WireCode(2)) = Answer[2].payload
          /\ Read(WireCode(3)) = Answer[3].payload
      BY <3>3, <3>5
    <3>7. QED
      BY <3>1, <3>4, <3>6
  <2>4. QED
    BY <2>2, <2>3 DEF ReplyIsUnderstood
<1>2. QED
  BY <1>1, DhcpMessageInvariant, PTL

(* Every option that was read, written with to_network_data and read       *)
(* again has its code, its length and its values, but for the order of     *)
(* the bytes of a number.                                                  *)
THEOREM OptionsAreKept == Spec => []OptionsSurvive
<1>1. Inv => OptionsSurvive
  <2> SUFFICES ASSUME Inv, NEW i \in DOMAIN message.options
               PROVE  LET option  == message.options[i]
                          written == option_to_network_data(option)
                          again   == real_values(written[1], SubSeq(written, 3, Len(written)))
                      IN  ~UndefinedData(option) =>
                            /\ written[1] = option.code
                            /\ Len(written) = 2 + option.real_payload_length
                            /\ Len(again) = Len(option.real_values)
                            /\ \A v \in DOMAIN again :
                                 SameButForByteOrder(again[v], option.real_values[v])
    BY DEF OptionsSurvive
  <2>1. PICK e \in AcceptedEntries : message.options[i] = OptionOf(e)
    BY OptionsAreAccepted
  <2>2. e \in Entries /\ e.code \notin {0, 255} /\ Accepts(e.code, e.payload)
    BY DEF AcceptedEntries
  <2>3. message.options[i] = Option(e.code, e.payload)
    BY <2>1 DEF OptionOf
  <2>4. QED
    BY <2>2, <2>3, OptionSurvives, ZenonT(30)
<1>2. QED
  BY <1>1, DhcpMessageInvariant, PTL

=============================================================================
