------------------------- MODULE ChildMemory_proofs -------------------------
(***************************************************************************)
(* What ChildMemory promises for every size of the page, the words, the    *)
(* padding and the buffers: what writes and reads of blocks and strings    *)
(* do, that buffers stay apart, and that the return breakpoint stands.     *)
(***************************************************************************)
EXTENDS ChildMemory, SequenceTheorems, Induction

----------------------------------------------------------------------------
(* write_block_impl *)

\* The state of its loop.
Turns(D, data) == [mem : [D -> Int], word : [1..Word -> Int], done : 0..Len(data)]

\* What its loop has written when done bytes are done: they are in place, and nothing else
\* has changed, except that data shorter than a word zeroes the bytes just below; the last
\* word written is at hand for the next turn, zeros at first.
WroteParts(after, last, done, m, address, data) ==
  /\ \A a \in DOMAIN m :
       \/ a \in address..(address + done - 1) /\ after[a] = data[a - address + 1]
       \/ /\ a \notin address..(address + done - 1) /\ after[a] = m[a]
          /\ ~(0 < done /\ Len(data) < Word /\ a \in (address + Len(data) - Word)..(address - 1))
       \/ /\ a \notin address..(address + done - 1) /\ after[a] = 0
          /\ 0 < done /\ Len(data) < Word /\ a \in (address + Len(data) - Word)..(address - 1)
  /\ done = 0 => \A i \in 1..Word : last[i] = 0
  /\ \/ done = 0 \/ done = Len(data)
     \/ done >= Word /\ \A i \in 1..Word : last[i] = data[done - Word + i]
Wrote(s, m, address, data) == WroteParts(s.mem, s.word, s.done, m, address, data)
Unfinished(s, data) == s.done # Len(data)

\* A turn that comes after n0 of n bytes and takes n1 more.
TurnOf(n, n0, n1) ==
  /\ n \in Nat /\ n0 \in Nat /\ n1 \in Nat /\ 0 < n1 /\ n1 <= Word /\ n0 + n1 <= n
  /\ n1 = Word \/ n0 + n1 = n

\* The word it writes, from the word of the turn before.
WordOf(word, before, data, n, n0, n1) ==
  /\ data \in [1..n -> Int] /\ before \in [1..Word -> Int]
  /\ word = [i \in 1..Word |-> IF i <= Word - n1 THEN before[i + n1] ELSE data[n0 + i - (Word - n1)]]
  /\ n0 = 0 \/ (n0 >= Word /\ \A i \in 1..Word : before[i] = data[n0 - Word + i])
  /\ n0 = 0 => \A i \in 1..Word : before[i] = 0

\* A page in which k of n bytes have been written.
PageDone(page, m, D, data, address, n, k) ==
  /\ page \in [D -> Int]
  /\ \A a \in D :
       IF a \in address..(address + k - 1) THEN page[a] = data[a - address + 1]
       ELSE page[a] = IF 0 < k /\ n < Word /\ a \in (address + n - Word)..(address - 1)
                      THEN 0 ELSE m[a]

\* The page it leaves, of the page the turn before left.
PageOf(page, old, word, m, D, data, address, n, n0, n1) ==
  /\ data \in [1..n -> Int] /\ address \in Int /\ word \in [1..Word -> Int]
  /\ D \in SUBSET Int /\ m \in [D -> Int] /\ old \in [D -> Int] /\ (n0 = 0 \/ n0 >= Word)
  /\ \A i \in 1..Word : word[i] = IF n0 = 0 /\ n < Word /\ i <= Word - n1 THEN 0
                                  ELSE data[(n0 + n1) - Word + i]
  /\ page = [a \in D |->
       IF a \in (address + n0 - (Word - n1))..(address + n0 - (Word - n1) + Word - 1)
       THEN word[a - (address + n0 - (Word - n1)) + 1] ELSE old[a]]
  /\ PageDone(old, m, D, data, address, n, n0)

\* The word holds the data that end with the turn's; only before a first turn that is
\* shorter than a word there are zeros.
LEMMA PieceWord ==
  ASSUME NEW n, NEW n0, NEW n1, TurnOf(n, n0, n1),
         NEW word, NEW before, NEW data, WordOf(word, before, data, n, n0, n1)
  PROVE  /\ word \in [1..Word -> Int]
         /\ \A i \in 1..Word : word[i] = IF n0 = 0 /\ n < Word /\ i <= Word - n1 THEN 0
                                         ELSE data[(n0 + n1) - Word + i]
<1> USE DEF TurnOf, WordOf
<1>1. Word \in Nat /\ Word > 0
  BY WordAssumption
<1>2. ASSUME NEW i \in 1..Word, i <= Word - n1
      PROVE  /\ word[i] \in Int
             /\ word[i] = IF n0 = 0 /\ n < Word THEN 0 ELSE data[(n0 + n1) - Word + i]
  <2>1. i + n1 \in 1..Word /\ word[i] = before[i + n1]
    BY <1>1, <1>2
  <2>2. CASE n0 = 0
    BY <1>1, <1>2, <2>1, <2>2
  <2>3. CASE n0 # 0
    <3>1. n0 - Word + (i + n1) = (n0 + n1) - Word + i
      BY <1>1
    <3>2. before[i + n1] = data[n0 - Word + (i + n1)]
      BY <2>1, <2>3
    <3> QED
      BY <2>1, <3>1, <3>2
  <2> QED
    BY <2>2, <2>3
<1>3. ASSUME NEW i \in 1..Word, ~ (i <= Word - n1)
      PROVE  word[i] \in Int /\ word[i] = data[(n0 + n1) - Word + i]
  <2>1. n0 + i - (Word - n1) = (n0 + n1) - Word + i /\ n0 + i - (Word - n1) \in 1..n
    BY <1>1, <1>3
  <2>2. word[i] = data[n0 + i - (Word - n1)]
    BY <1>3
  <2> QED
    BY <2>1, <2>2
<1>4. \A i \in 1..Word : word[i] \in Int
  BY <1>2, <1>3
<1> QED
  BY <1>2, <1>3, <1>4

\* The page has the turn's data in place, too, and nothing else has changed but the bytes
\* below data shorter than a word.
LEMMA PiecePage ==
  ASSUME NEW n, NEW n0, NEW n1, TurnOf(n, n0, n1), NEW page, NEW old, NEW word, NEW m, NEW D,
         NEW data, NEW address, PageOf(page, old, word, m, D, data, address, n, n0, n1)
  PROVE  PageDone(page, m, D, data, address, n, n0 + n1)
<1>0. /\ n \in Nat /\ n0 \in Nat /\ n1 \in Nat /\ 0 < n1 /\ n1 <= Word /\ n0 + n1 <= n
      /\ n1 = Word \/ n0 + n1 = n
      /\ address \in Int /\ Word \in Nat /\ (n0 = 0 \/ n0 >= Word)
  BY WordAssumption DEF TurnOf, PageOf
<1>a. PICK at \in Int : at = address + n0 - (Word - n1)
  BY <1>0
<1>b. /\ data \in [1..n -> Int] /\ word \in [1..Word -> Int]
      /\ D \in SUBSET Int /\ m \in [D -> Int] /\ old \in [D -> Int]
      /\ \A i \in 1..Word : word[i] = IF n0 = 0 /\ n < Word /\ i <= Word - n1 THEN 0
                                      ELSE data[(n0 + n1) - Word + i]
      /\ page = [a \in D |-> IF a \in at..(at + Word - 1) THEN word[a - at + 1] ELSE old[a]]
      /\ \A a \in D :
           IF a \in address..(address + n0 - 1) THEN old[a] = data[a - address + 1]
           ELSE old[a] = IF 0 < n0 /\ n < Word /\ a \in (address + n - Word)..(address - 1)
                         THEN 0 ELSE m[a]
  BY <1>a, Zenon DEF PageOf, PageDone
<1> USE <1>0, <1>a, <1>b
<1>1. Word \in Nat /\ Word > 0
  BY WordAssumption
<1>2. ASSUME NEW a \in D, a \in at..(at + Word - 1)
      PROVE  /\ page[a] \in Int
             /\ IF a \in address..(address + n0 + n1 - 1) THEN page[a] = data[a - address + 1]
                ELSE n < Word /\ a \in (address + n - Word)..(address - 1) /\ page[a] = 0
  <2> DEFINE i == a - at + 1
  <2>1. page[a] = word[i] /\ i \in 1..Word
    BY <1>1, <1>2
  <2>2. (n0 + n1) - Word + i = a - address + 1
    BY <1>1
  <2>3. CASE i <= Word - n1 /\ n0 = 0
    BY <1>1, <1>2, <2>1, <2>3
  <2>4. CASE ~ (i <= Word - n1 /\ n0 = 0)
    <3>1. a \in address..(address + n0 + n1 - 1)
      BY <1>1, <1>2, <2>4
    <3> QED
      BY <2>1, <2>2, <2>4, <3>1
  <2> QED
    BY <2>3, <2>4
<1>3. ASSUME NEW a \in D, a \notin at..(at + Word - 1)
      PROVE  /\ page[a] \in Int
             /\ IF a \in address..(address + n0 + n1 - 1) THEN page[a] = data[a - address + 1]
                ELSE page[a] = IF n < Word /\ a \in (address + n - Word)..(address - 1)
                               THEN 0 ELSE m[a]
  <2>1. page[a] = old[a]
    BY <1>3
  <2>2. a \in address..(address + n0 + n1 - 1) <=> a \in address..(address + n0 - 1)
    BY <1>1, <1>3
  <2> QED
    BY <2>1, <2>2
<1>4. 0 < n0 + n1 /\ address + (n0 + n1) - 1 = address + n0 + n1 - 1
  OBVIOUS
<1>5. ASSUME NEW a \in D
      PROVE  /\ page[a] \in Int
             /\ IF a \in address..(address + n0 + n1 - 1) THEN page[a] = data[a - address + 1]
                ELSE page[a] = IF n < Word /\ a \in (address + n - Word)..(address - 1)
                               THEN 0 ELSE m[a]
  BY <1>2, <1>3
<1>6. page \in [D -> Int]
  BY <1>5
<1> QED
  BY <1>4, <1>5, <1>6, Zenon DEF PageDone

\* A turn copies at least one byte and at most a word of them, and less only at the end.
LEMMA TurnLength ==
  ASSUME NEW n \in Nat, NEW n0 \in Nat, n0 < n
  PROVE  \E n1 \in Nat :
           /\ n1 = IF n - n0 < Word THEN n - n0 ELSE Word
           /\ 0 < n1 /\ n1 <= Word /\ n0 + n1 <= n /\ n0 + n1 \in 0..n /\ n0 + n1 > n0
           /\ n1 = Word \/ n0 + n1 = n
<1>1. CASE n - n0 < Word
  <2>1. n - n0 \in Nat
    OBVIOUS
  <2> QED
    BY <1>1, <2>1, WordAssumption
<1>2. CASE ~ (n - n0 < Word)
  <2>1. Word \in Nat
    BY WordAssumption
  <2> QED
    BY <1>2, <2>1, WordAssumption
<1> QED
  BY <1>1, <1>2

\* A turn of the loop keeps what Wrote says, for more bytes.
LEMMA WriteTurn ==
  ASSUME NEW D \in SUBSET Int, NEW m \in [D -> Int], NEW data \in Seq(Int),
         NEW address \in Int, NEW s \in Turns(D, data), Unfinished(s, data),
         Wrote(s, m, address, data)
  PROVE  /\ WriteWord(s, address, data) \in Turns(D, data)
         /\ Wrote(WriteWord(s, address, data), m, address, data)
         /\ WriteWord(s, address, data).done > s.done
<1>1. PICK n \in Nat, n0 \in Nat, before \in [1..Word -> Int], old \in [D -> Int] :
        /\ n = Len(data) /\ n0 = s.done /\ before = s.word /\ old = s.mem /\ n0 < n
  BY LenProperties DEF Turns, Unfinished
<1>2. Word \in Nat /\ Word > 0 /\ data \in [1..n -> Int] /\ DOMAIN m = D
  BY <1>1, LenProperties, WordAssumption
<1>n. n0 < n
  BY <1>1
<1>p. PICK n1 \in Nat :
        /\ n1 = IF n - n0 < Word THEN n - n0 ELSE Word
        /\ 0 < n1 /\ n1 <= Word /\ n0 + n1 <= n /\ n0 + n1 \in 0..n /\ n0 + n1 > n0
        /\ n1 = Word \/ n0 + n1 = n
  BY <1>n, TurnLength, Zenon
<1>3. n1 = IF n - n0 < Word THEN n - n0 ELSE Word
  BY <1>p, Zenon
<1>4. /\ n1 \in Nat /\ 0 < n1 /\ n1 <= Word /\ n0 + n1 <= n /\ n0 + n1 \in 0..n /\ n0 + n1 > n0
      /\ n1 = Word \/ n0 + n1 = n
  BY <1>p, Zenon
<1>t. TurnOf(n, n0, n1)
  BY <1>4 DEF TurnOf
<1>5. PICK at \in Int : at = address + n0 - (Word - n1)
  BY <1>2, <1>4
<1> DEFINE word == [i \in 1..Word |-> IF i <= Word - n1 THEN before[i + n1]
                                      ELSE data[n0 + i - (Word - n1)]]
           page == [a \in D |-> IF a \in at..(at + Word - 1) THEN word[a - at + 1] ELSE old[a]]
           t == [mem |-> page, word |-> word, done |-> n0 + n1]
<1>6. WriteWord(s, address, data) = t
  <2> DEFINE left == Len(data) - s.done
             todo == IF left < Word THEN left ELSE Word
             kept == Word - todo
  <2>1. todo = n1
    BY <1>1, <1>3
  <2> HIDE DEF left
  <2> DEFINE start == address + s.done - kept
             theWord == [i \in 1..Word |-> IF i <= kept THEN s.word[i + todo]
                                           ELSE data[s.done + i - kept]]
             thePage == [a \in DOMAIN s.mem |-> IF a \in start..(start + Word - 1)
                                                THEN theWord[a - start + 1] ELSE s.mem[a]]
  <2>2. WriteWord(s, address, data) = [mem |-> thePage, word |-> theWord, done |-> s.done + todo]
    BY DEF WriteWord, left
  <2> HIDE DEF todo
  <2>3. theWord = word
    BY <1>1, <2>1
  <2>4. start = at
    BY <1>1, <1>5, <2>1
  <2> HIDE DEF start, theWord, word
  <2>5. thePage = page
    BY <1>1, <2>3, <2>4
  <2> HIDE DEF thePage, page
  <2> QED
    BY <1>1, <2>1, <2>2, <2>3, <2>5
<1>7. /\ n0 = 0 \/ (n0 >= Word /\ \A i \in 1..Word : before[i] = data[n0 - Word + i])
      /\ n0 = 0 => \A i \in 1..Word : before[i] = 0
      /\ \A a \in D :
           IF a \in address..(address + n0 - 1) THEN old[a] = data[a - address + 1]
           ELSE old[a] = IF 0 < n0 /\ n < Word /\ a \in (address + n - Word)..(address - 1)
                         THEN 0 ELSE m[a]
  BY <1>1, <1>2 DEF Wrote, WroteParts
<1>8. /\ word \in [1..Word -> Int]
      /\ \A i \in 1..Word : word[i] = IF n0 = 0 /\ n < Word /\ i <= Word - n1 THEN 0
                                      ELSE data[(n0 + n1) - Word + i]
  <2>1. WordOf(word, before, data, n, n0, n1)
    BY <1>2, <1>7, Zenon DEF WordOf
  <2> HIDE DEF word
  <2> QED
    BY <1>t, <2>1, PieceWord
<1> HIDE DEF word
<1>9. PageDone(page, m, D, data, address, n, n0 + n1)
  <2>1. PageOf(page, old, word, m, D, data, address, n, n0, n1)
    BY <1>2, <1>5, <1>7, <1>8, Zenon DEF PageOf, PageDone
  <2> HIDE DEF page
  <2> QED
    BY <1>t, <2>1, PiecePage, Zenon
<1> HIDE DEF page
<1>10. t.mem = page /\ t.word = word /\ t.done = n0 + n1
  OBVIOUS
<1>11. t \in Turns(D, data) /\ t.done > s.done
  <2>1. n0 + n1 \in 0..Len(data) /\ n0 + n1 > n0
    BY <1>1, <1>4
  <2> QED
    BY <1>1, <1>8, <1>9, <2>1 DEF Turns, PageDone
<1> HIDE DEF t
<1>12. Wrote(t, m, address, data)
  <2>1. n0 + n1 = n \/ (n0 + n1 >= Word /\ \A i \in 1..Word : word[i] = data[(n0 + n1) - Word + i])
    BY <1>2, <1>4, <1>8
  <2>2. 0 < n0 + n1 /\ address + (n0 + n1) - 1 = address + n0 + n1 - 1
    BY <1>4
  <2>3. ASSUME NEW a \in DOMAIN m
        PROVE  IF a \in address..(address + (n0 + n1) - 1) THEN page[a] = data[a - address + 1]
               ELSE page[a] = IF /\ 0 < n0 + n1 /\ Len(data) < Word
                                 /\ a \in (address + Len(data) - Word)..(address - 1)
                              THEN 0 ELSE m[a]
    BY <1>1, <1>2, <1>9, <2>2, <2>3, Zenon DEF PageDone
  <2>4. n0 + n1 = n => n0 + n1 = Len(data)
    BY <1>1
  <2>5. WroteParts(page, word, n0 + n1, m, address, data)
    <3>1. \/ n0 + n1 = 0 \/ n0 + n1 = Len(data)
          \/ n0 + n1 >= Word /\ \A i \in 1..Word : word[i] = data[(n0 + n1) - Word + i]
      BY <2>1, <2>4, Zenon
    <3>2. \A a \in DOMAIN m :
            \/ a \in address..(address + (n0 + n1) - 1) /\ page[a] = data[a - address + 1]
            \/ /\ a \notin address..(address + (n0 + n1) - 1) /\ page[a] = m[a]
               /\ ~(/\ 0 < n0 + n1 /\ Len(data) < Word
                    /\ a \in (address + Len(data) - Word)..(address - 1))
            \/ /\ a \notin address..(address + (n0 + n1) - 1) /\ page[a] = 0
               /\ 0 < n0 + n1 /\ Len(data) < Word /\ a \in (address + Len(data) - Word)..(address - 1)
      BY <2>3, Zenon
    <3>3. n0 + n1 # 0
      BY <1>4
    <3> QED
      BY <3>1, <3>2, <3>3, Zenon DEF WroteParts
  <2> QED
    BY <1>10, <2>5, Zenon DEF Wrote
<1> QED
  BY <1>6, <1>11, <1>12

\* The turns are what the recursion says, and each has written what it claims.
LEMMA WriteTurnsDef ==
  ASSUME NEW D \in SUBSET Int, NEW m \in [D -> Int], NEW data \in Seq(Int),
         NEW address \in Int
  PROVE  \A k \in 0..Len(data) :
           /\ WriteTurns(m, address, data)[k] \in Turns(D, data)
           /\ Wrote(WriteTurns(m, address, data)[k], m, address, data)
           /\ WriteTurns(m, address, data)[k].done >= k
<1> DEFINE N == Len(data)
           V == {s \in Turns(D, data) : Wrote(s, m, address, data)}
           first == [mem |-> m, word |-> Filled(Word, 0), done |-> 0]
           next(s) == IF s.done = N THEN s ELSE WriteWord(s, address, data)
           step == [p \in V \X (1..N) |-> next(p[1])]
           turns == WriteTurns(m, address, data)
<1>1. N \in Nat /\ Word \in Nat /\ Word > 0 /\ DOMAIN m = D
  BY LenProperties, WordAssumption
<1>2. first \in V
  BY <1>1 DEF Turns, Wrote, WroteParts, Filled
<1>3. ASSUME NEW s \in V
      PROVE  next(s) \in V /\ (s.done # N => next(s).done > s.done)
  BY WriteTurn DEF Unfinished
<1>4. step \in [V \X (1..N) -> V]
  BY <1>3
<1> HIDE DEF V, first, N
<1>5. PICK f : IsRecursive(f, V, N, first, step)
  <2>1. Recursible(V, N, first, step)
    BY <1>1, <1>2, <1>4 DEF Recursible
  <2> QED
    BY <2>1, Recursion
<1> HIDE DEF next
<1>6. f = [k \in 0..N |-> IF k = 0 THEN first ELSE next(f[k - 1])]
  <2>1. ASSUME NEW k \in 1..N PROVE f[k] = next(f[k - 1])
    <3>1. f[k - 1] \in V
      BY <1>1, <1>5 DEF IsRecursive
    <3> QED
      BY <1>5, <3>1 DEF IsRecursive
  <2>2. \A k \in 0..N : f[k] = IF k = 0 THEN first ELSE next(f[k - 1])
    BY <1>1, <1>5, <2>1 DEF IsRecursive
  <2> QED
    BY <1>5, <2>2 DEF IsRecursive
<1>7. turns = CHOOSE g : g = [k \in 0..N |-> IF k = 0 THEN first ELSE next(g[k - 1])]
  BY DEF WriteTurns, next, first, N
<1>8. turns = [k \in 0..N |-> IF k = 0 THEN first ELSE next(turns[k - 1])]
  <2> HIDE DEF turns
  <2> QED
    BY <1>6, <1>7, Zenon
<1> DEFINE T == {k \in 0..N : turns[k] \in V /\ turns[k].done >= k}
<1>9. 0 \in T
  <2>1. turns[0] = first
    BY <1>1, <1>8
  <2>2. turns[0].done = 0
    BY <2>1 DEF first
  <2> QED
    BY <1>1, <1>2, <2>1, <2>2
<1>10. ASSUME NEW k \in 1..N, k - 1 \in T PROVE k \in T
  <2>1. turns[k] = next(turns[k - 1])
    BY <1>1, <1>8
  <2>2. turns[k] \in V /\ (turns[k - 1].done # N => turns[k].done > turns[k - 1].done)
    BY <1>3, <1>10, <2>1
  <2>3. turns[k - 1].done = N => turns[k] = turns[k - 1]
    BY <2>1 DEF next
  <2>4. turns[k].done \in Nat /\ turns[k - 1].done \in Nat /\ turns[k - 1].done >= k - 1
    BY <1>1, <1>10, <2>2 DEF V, Turns, N
  <2> QED
    BY <1>1, <2>2, <2>3, <2>4
<1>11. \A k \in 0..N : k \in T
  <2> HIDE DEF T
  <2> QED
    BY <1>1, <1>9, <1>10, BoundedInduction
<1> QED
  BY <1>11 DEF V, N

\* A page that holds the data at the address and is the old one elsewhere, except that data
\* shorter than a word have zeros just below, down to a word's size.
DataWritten(new, m, D, address, data) ==
  /\ new \in [D -> Int]
  /\ \A a \in D :
       IF a \in address..(address + Len(data) - 1) THEN new[a] = data[a - address + 1]
       ELSE new[a] = IF /\ 0 < Len(data) /\ Len(data) < Word
                        /\ a \in (address + Len(data) - Word)..(address - 1)
                     THEN 0 ELSE m[a]

\* PtraceMemoryIO::write_block_impl puts the data in place and changes nothing else, except
\* that data shorter than a word zero the bytes just below, down to a word's size.
THEOREM WriteBlockEffect ==
  ASSUME NEW D \in SUBSET Int, NEW m \in [D -> Int], NEW data \in Seq(Int),
         NEW address \in Int
  PROVE  DataWritten(WriteBlock(m, address, data), m, D, address, data)
<1> DEFINE s == WriteTurns(m, address, data)[Len(data)]
<1>1. Len(data) \in Nat /\ Len(data) \in 0..Len(data) /\ DOMAIN m = D
  BY LenProperties
<1>2. s \in Turns(D, data) /\ Wrote(s, m, address, data) /\ s.done >= Len(data)
  BY <1>1, WriteTurnsDef
<1>3. WriteBlock(m, address, data) = s.mem
  BY DEF WriteBlock
<1> HIDE DEF s
<1>4. s.mem \in [D -> Int] /\ s.done = Len(data)
  BY <1>1, <1>2 DEF Turns
<1> QED
  BY <1>1, <1>2, <1>3, <1>4 DEF Wrote, WroteParts, DataWritten

----------------------------------------------------------------------------
(* setup_function_call *)

\* The constants, one by one.
LEMMA Numbers ==
  /\ Word \in Nat /\ Word > 0 /\ MMAP_LENGTH \in Nat /\ (MMAP_LENGTH * 3) \div 4 \in Int
  /\ Padding \in Nat /\ Padding >= Word - 1 /\ OFFSET_ADDITION \in Nat /\ MaxOps \in Nat
  /\ MMAP_LENGTH - (MMAP_LENGTH * 3) \div 4 >= OFFSET_ADDITION + Word
  /\ Word <= MMAP_LENGTH
  /\ Page \in SUBSET Int /\ \A n \in Sizes : n \in Nat /\ n > 0
<1>1. /\ Word \in Nat /\ Word > 0 /\ MMAP_LENGTH \in Nat
      /\ Padding \in Nat /\ OFFSET_ADDITION \in Nat /\ MaxOps \in Nat
  BY WordAssumption, PageAssumption
<1>2. (MMAP_LENGTH * 3) \div 4 \in Int /\ 0 <= (MMAP_LENGTH * 3) \div 4
  BY <1>1
<1>3. /\ MMAP_LENGTH - (MMAP_LENGTH * 3) \div 4 >= OFFSET_ADDITION + Word
      /\ Padding >= Word - 1
  BY RoomAssumption, PaddingAssumption
<1>4. Word <= MMAP_LENGTH
  BY <1>1, <1>2, <1>3
<1>5. Page \in SUBSET Int /\ \A n \in Sizes : n \in Nat /\ n > 0
  BY <1>1, SizesAssumption DEF Page
<1> QED
  BY <1>1, <1>2, <1>3, <1>4, <1>5

\* The return breakpoint is written whole.
LEMMA BreakpointWritten ==
  ASSUME NEW m \in [Page -> Int]
  PROVE  /\ WriteBlock(m, 0, Breakpoint) \in [Page -> Int]
         /\ \A i \in 1..Word : WriteBlock(m, 0, Breakpoint)[i - 1] = Breakpoint[i]
<1>1. Breakpoint \in Seq(Int) /\ Len(Breakpoint) = Word
  BY Numbers DEF Breakpoint, Trap, Nop
<1>2. Page \in SUBSET Int /\ 0 \in Int
  BY Numbers
<1>3. /\ WriteBlock(m, 0, Breakpoint) \in [Page -> Int]
      /\ \A a \in Page :
           IF a \in 0..(0 + Word - 1)
           THEN WriteBlock(m, 0, Breakpoint)[a] = Breakpoint[a - 0 + 1]
           ELSE WriteBlock(m, 0, Breakpoint)[a] = m[a]
  <2>1. PICK data \in Seq(Int) : data = Breakpoint /\ Len(data) = Word
    BY <1>1
  <2>2. ~(Word < Word)
    BY Numbers
  <2>3. PICK address \in Int : address = 0
    BY <1>2
  <2>4. DataWritten(WriteBlock(m, address, data), m, Page, address, data)
    BY <1>2, WriteBlockEffect
  <2> QED
    BY <2>1, <2>2, <2>3, <2>4 DEF DataWritten
<1>4. ASSUME NEW i \in 1..Word
      PROVE  WriteBlock(m, 0, Breakpoint)[i - 1] = Breakpoint[i]
  <2>1. i - 1 \in Page /\ i - 1 \in 0..(0 + Word - 1) /\ (i - 1) - 0 + 1 = i
    BY Numbers DEF Page
  <2> QED
    BY <1>3, <2>1
<1> QED
  BY <1>3, <1>4

\* A page that is another one at the breakpoint.
SameBreakpoint(new, old) == new \in [Page -> Int] /\ \A i \in 1..Word : new[i - 1] = old[i - 1]

\* A write that starts behind the padding never reaches down to the breakpoint.
LEMMA WriteAboveBreakpoint ==
  ASSUME NEW m \in [Page -> Int], NEW address \in Int, address >= ReturnSpace,
         NEW n \in Nat, NEW b \in Int
  PROVE  SameBreakpoint(WriteBlock(m, address, Filled(n, b)), m)
<1>1. PICK data \in Seq(Int) : data = Filled(n, b) /\ Len(data) = n
  <2>1. Filled(n, b) \in Seq(Int) /\ Len(Filled(n, b)) = n
    BY DEF Filled
  <2> QED
    BY <2>1
<1>2. Page \in SUBSET Int
  BY Numbers
<1> DEFINE w == WriteBlock(m, address, data)
<1>3. /\ w \in [Page -> Int]
      /\ \A a \in Page :
           IF a \in address..(address + Len(data) - 1) THEN w[a] = data[a - address + 1]
           ELSE w[a] = IF /\ 0 < Len(data) /\ Len(data) < Word
                          /\ a \in (address + Len(data) - Word)..(address - 1)
                       THEN 0 ELSE m[a]
  <2>1. DataWritten(w, m, Page, address, data)
    BY <1>2, WriteBlockEffect
  <2> HIDE DEF w
  <2> QED
    BY <2>1 DEF DataWritten
<1> HIDE DEF w
<1>4. ASSUME NEW i \in 1..Word PROVE w[i - 1] = m[i - 1]
  <2>1. i - 1 \in Page
    BY Numbers DEF Page
  <2>2. /\ i - 1 \notin address..(address + n - 1)
        /\ n > 0 => i - 1 \notin (address + n - Word)..(address - 1)
    BY Numbers DEF ReturnSpace
  <2> QED
    BY <1>1, <1>3, <2>1, <2>2
<1>5. SameBreakpoint(w, m)
  BY <1>3, <1>4 DEF SameBreakpoint
<1> QED
  BY <1>1, <1>5 DEF w

\* Arguments start behind the padding.
LEMMA UsedAmtBounds ==
  ASSUME NEW sizes \in Seq(Nat)
  PROVE  \A k \in 0..Len(sizes) : UsedAmt(sizes)[k] \in Int /\ UsedAmt(sizes)[k] >= ReturnSpace
<1> DEFINE N == Len(sizes)
           V == {n \in Int : n >= ReturnSpace}
           more(n, k) == n + IF Mapped(n, sizes[k]) THEN sizes[k] ELSE 0
           step == [p \in V \X (1..N) |-> more(p[1], p[2])]
           used == UsedAmt(sizes)
<1>1. N \in Nat /\ \A k \in 1..N : sizes[k] \in Nat
  BY LenProperties, ElementOfSeq
<1>2. ReturnSpace \in Int /\ ReturnSpace \in V
  BY Numbers DEF ReturnSpace
<1>3. \A n \in V, k \in 1..N : more(n, k) \in V
  <2>1. \A n \in V, k \in 1..N : more(n, k) = n + sizes[k] \/ more(n, k) = n + 0
    OBVIOUS
  <2> HIDE DEF more
  <2> QED
    BY <1>1, <1>2, <2>1
<1> HIDE DEF N, V, more
<1>4. PICK f : IsRecursive(f, V, N, ReturnSpace, step)
  <2>1. step \in [V \X (1..N) -> V]
    BY <1>3
  <2>2. Recursible(V, N, ReturnSpace, step)
    BY <1>1, <1>2, <2>1 DEF Recursible
  <2> QED
    BY <2>2, Recursion
<1>5. f = [k \in 0..N |-> IF k = 0 THEN ReturnSpace ELSE more(f[k - 1], k)]
  <2>1. ASSUME NEW k \in 1..N PROVE f[k] = more(f[k - 1], k)
    <3>1. f[k - 1] \in V
      BY <1>1, <1>4 DEF IsRecursive
    <3> QED
      BY <1>4, <3>1 DEF IsRecursive
  <2>2. \A k \in 0..N : f[k] = IF k = 0 THEN ReturnSpace ELSE more(f[k - 1], k)
    BY <1>1, <1>4, <2>1 DEF IsRecursive
  <2> QED
    BY <1>4, <2>2 DEF IsRecursive
<1>6. used = CHOOSE g : g = [k \in 0..N |-> IF k = 0 THEN ReturnSpace ELSE more(g[k - 1], k)]
  BY DEF UsedAmt, N, more
<1> HIDE DEF used
<1>7. used = [k \in 0..N |-> IF k = 0 THEN ReturnSpace ELSE more(used[k - 1], k)]
  BY <1>5, <1>6, Zenon
<1> DEFINE T == {k \in 0..N : used[k] \in V}
<1>8. 0 \in T
  BY <1>1, <1>2, <1>7
<1>9. \A k \in 1..N : k - 1 \in T => k \in T
  BY <1>1, <1>3, <1>7
<1>10. \A k \in 0..N : k \in T
  <2> HIDE DEF T
  <2> QED
    BY <1>1, <1>8, <1>9, BoundedInduction
<1> QED
  BY <1>10 DEF V, N, used

\* Preparing a call leaves the breakpoint where the function returns to, whatever the
\* sizes of the arguments.
LEMMA CallWritesBreakpoint ==
  ASSUME NEW m \in [Page -> Int], NEW sizes \in Seq(Nat), NEW b \in Int
  PROVE  /\ CallWrites(m, sizes, b)[Len(sizes)] \in [Page -> Int]
         /\ \A i \in 1..Word : CallWrites(m, sizes, b)[Len(sizes)][i - 1] = Breakpoint[i]
<1> DEFINE N == Len(sizes)
           V == {p \in [Page -> Int] : \A i \in 1..Word : p[i - 1] = Breakpoint[i]}
           first == WriteBlock(m, 0, Breakpoint)
           next(p, k) == WriteBlock(p, UsedAmt(sizes)[k - 1], Filled(sizes[k], b))
           step == [p \in V \X (1..N) |-> next(p[1], p[2])]
           put == CallWrites(m, sizes, b)
<1>1. N \in Nat /\ \A k \in 1..N : sizes[k] \in Nat
  BY LenProperties, ElementOfSeq
<1>2. first \in V
  <2>1. first \in [Page -> Int] /\ \A i \in 1..Word : first[i - 1] = Breakpoint[i]
    BY BreakpointWritten
  <2> HIDE DEF first
  <2> QED
    BY <2>1
<1>3. ASSUME NEW p \in V, NEW k \in 1..N PROVE next(p, k) \in V
  <2>1. k - 1 \in 0..N
    BY <1>1
  <2>2. PICK address \in Int : address = UsedAmt(sizes)[k - 1] /\ address >= ReturnSpace
    BY <2>1, UsedAmtBounds
  <2>3. PICK n \in Nat : n = sizes[k]
    BY <1>1
  <2>4. SameBreakpoint(WriteBlock(p, address, Filled(n, b)), p)
    BY <2>2, WriteAboveBreakpoint
  <2> QED
    BY <2>2, <2>3, <2>4 DEF SameBreakpoint
<1> HIDE DEF N, V, first, next
<1>4. PICK f : IsRecursive(f, V, N, first, step)
  <2>1. step \in [V \X (1..N) -> V]
    BY <1>3
  <2>2. Recursible(V, N, first, step)
    BY <1>1, <1>2, <2>1 DEF Recursible
  <2> QED
    BY <2>2, Recursion
<1>5. f = [k \in 0..N |-> IF k = 0 THEN first ELSE next(f[k - 1], k)]
  <2>1. ASSUME NEW k \in 1..N PROVE f[k] = next(f[k - 1], k)
    <3>1. f[k - 1] \in V
      BY <1>1, <1>4 DEF IsRecursive
    <3> QED
      BY <1>4, <3>1 DEF IsRecursive
  <2>2. \A k \in 0..N : f[k] = IF k = 0 THEN first ELSE next(f[k - 1], k)
    BY <1>1, <1>4, <2>1 DEF IsRecursive
  <2> QED
    BY <1>4, <2>2 DEF IsRecursive
<1>6. put = CHOOSE g : g = [k \in 0..N |-> IF k = 0 THEN first ELSE next(g[k - 1], k)]
  BY DEF CallWrites, N, first, next
<1> HIDE DEF put
<1>7. put = [k \in 0..N |-> IF k = 0 THEN first ELSE next(put[k - 1], k)]
  BY <1>5, <1>6, Zenon
<1> DEFINE T == {k \in 0..N : put[k] \in V}
<1>8. 0 \in T
  BY <1>1, <1>2, <1>7
<1>9. \A k \in 1..N : k - 1 \in T => k \in T
  BY <1>1, <1>3, <1>7
<1>10. \A k \in 0..N : k \in T
  <2> HIDE DEF T
  <2> QED
    BY <1>1, <1>8, <1>9, BoundedInduction
<1> QED
  BY <1>1, <1>10 DEF V, N, put

----------------------------------------------------------------------------
(* MemoryDiscipline is inductive *)

Buffer == [addr : Int, len : Sizes, val : Int]

\* A buffer that is set is written as AsmBuffer's size many equal bytes.
LEMMA SetBuffer ==
  ASSUME TypeOK, NEW i \in DOMAIN buffers, NEW b \in Int
  PROVE  /\ WriteBlock(mem, buffers[i].addr, Filled(buffers[i].len, b)) \in [Page -> Int]
         /\ [buffers EXCEPT ![i].val = b] \in Seq(Buffer)
         /\ \A a \in Page :
              LET new == WriteBlock(mem, buffers[i].addr, Filled(buffers[i].len, b))[a] IN
              IF a \in Span(buffers[i]) THEN new = b
              ELSE new = IF /\ buffers[i].len < Word
                            /\ a \in (buffers[i].addr + buffers[i].len - Word)..(buffers[i].addr - 1)
                         THEN 0 ELSE mem[a]
<1>1. buffers \in Seq(Buffer) /\ mem \in [Page -> Int] /\ Page \in SUBSET Int
  BY Numbers DEF TypeOK, Buffer
<1>2. buffers[i] \in Buffer /\ i \in 1..Len(buffers)
  BY <1>1, ElementOfSeq
<1>3. PICK address \in Int, n \in Nat : address = buffers[i].addr /\ n = buffers[i].len
  BY <1>2, Numbers DEF Buffer
<1>4. PICK data \in Seq(Int) : data = Filled(n, b) /\ Len(data) = n
  <2>1. Filled(n, b) \in Seq(Int) /\ Len(Filled(n, b)) = n
    BY DEF Filled
  <2> QED
    BY <2>1
<1>5. \A k \in 1..n : data[k] = b
  BY <1>4 DEF Filled
<1> DEFINE w == WriteBlock(mem, address, data)
<1>6. /\ w \in [Page -> Int]
      /\ \A a \in Page :
           IF a \in address..(address + Len(data) - 1) THEN w[a] = data[a - address + 1]
           ELSE w[a] = IF /\ 0 < Len(data) /\ Len(data) < Word
                          /\ a \in (address + Len(data) - Word)..(address - 1)
                       THEN 0 ELSE mem[a]
  <2>1. DataWritten(w, mem, Page, address, data)
    BY <1>1, WriteBlockEffect
  <2> HIDE DEF w
  <2> QED
    BY <2>1 DEF DataWritten
<1> HIDE DEF w
<1>7. ASSUME NEW a \in Page
      PROVE  IF a \in address..(address + n - 1) THEN w[a] = b
             ELSE w[a] = IF n < Word /\ a \in (address + n - Word)..(address - 1) THEN 0 ELSE mem[a]
  <2>1. CASE a \in address..(address + n - 1)
    <3>1. a - address + 1 \in 1..n
      BY <1>1, <2>1
    <3> QED
      BY <1>4, <1>5, <1>6, <2>1, <3>1
  <2>2. CASE a \notin address..(address + n - 1)
    <3>1. n > 0
      BY <1>2, <1>3, Numbers DEF Buffer
    <3> QED
      BY <1>4, <1>6, <2>2, <3>1
  <2> QED
    BY <2>1, <2>2
<1>8. [buffers EXCEPT ![i].val = b] \in Seq(Buffer)
  <2>1. [buffers[i] EXCEPT !.val = b] \in Buffer
    BY <1>2 DEF Buffer
  <2> QED
    BY <1>1, <1>2, <2>1, ExceptSeq
<1> QED
  BY <1>3, <1>4, <1>6, <1>7, <1>8 DEF w, Span

\* The sizes of a call's arguments are numbers.
LEMMA ArgListsType ==
  ASSUME NEW sizes \in ArgLists PROVE sizes \in Seq(Nat)
<1>1. PICK k \in 0..2 : sizes \in [1..k -> Sizes]
  BY DEF ArgLists
<1> QED
  BY <1>1, Numbers

\* Every step keeps the types of the page, the allocations and the buffers.
LEMMA TypeStep ==
  ASSUME TypeOK, [Next]_vars PROVE TypeOK'
<1>1. CASE UNCHANGED vars
  BY <1>1 DEF TypeOK, vars
<1>2. ASSUME NEW n \in Sizes, CreateBuffer(n) PROVE TypeOK'
  <2>1. n \in Nat /\ alloced_mem_ \in Nat
    BY Numbers DEF TypeOK
  <2>2. alloced_mem_' \in Nat /\ ops' \in Nat /\ pc' \in {"idle", "call", "crashed"} /\ mem' = mem
    BY <1>2, <2>1 DEF CreateBuffer, Begin, TypeOK
  <2>3. MMAP_LENGTH - (alloced_mem_' + OFFSET_ADDITION) \in Int
    BY <2>2, Numbers
  <2> DEFINE new == [addr |-> MMAP_LENGTH - (alloced_mem_' + OFFSET_ADDITION), len |-> n,
                     val |-> Unknown]
  <2>4. new \in Buffer
    BY <2>3 DEF Buffer, Unknown
  <2>5. buffers' = buffers \/ buffers' = Append(buffers, new)
    BY <1>2 DEF CreateBuffer
  <2> HIDE DEF new
  <2>6. buffers \in Seq(Buffer)
    BY DEF TypeOK, Buffer
  <2>7. buffers' \in Seq(Buffer)
    BY <2>4, <2>5, <2>6, AppendProperties
  <2> QED
    BY <2>2, <2>7 DEF TypeOK, Buffer
<1>3. ASSUME NEW i \in DOMAIN buffers, NEW b \in Bytes, SetValue(i, b) PROVE TypeOK'
  <2>1. b \in Int
    BY BytesAssumption
  <2>2. mem' \in [Page -> Int] /\ buffers' \in Seq(Buffer)
    BY <1>3, <2>1, SetBuffer DEF SetValue
  <2> QED
    BY <1>3, <2>2 DEF SetValue, Begin, TypeOK, Buffer
<1>4. ASSUME NEW i \in DOMAIN buffers, NEW b \in Bytes, ProgramWrites(i, b) PROVE TypeOK'
  <2>1. b \in Int
    BY BytesAssumption
  <2>2. buffers' \in Seq(Buffer)
    BY <1>4, <2>1, SetBuffer DEF ProgramWrites
  <2>3. mem' \in [Page -> Int]
    BY <1>4, <2>1 DEF ProgramWrites, TypeOK
  <2> QED
    BY <1>4, <2>2, <2>3 DEF ProgramWrites, TypeOK, Buffer
<1>5. ASSUME NEW sizes \in ArgLists, NEW b \in Bytes \ {0}, CallFunction(sizes, b) PROVE TypeOK'
  <2>1. b \in Int
    BY BytesAssumption
  <2>2. mem' \in [Page -> Int]
    BY <1>5, <2>1, ArgListsType, CallWritesBreakpoint DEF CallFunction, TypeOK
  <2> QED
    BY <1>5, <2>2 DEF CallFunction, Begin, TypeOK
<1>6. CASE FunctionReturns
  BY <1>6 DEF FunctionReturns, TypeOK
<1>7. CASE RestartProgram
  BY <1>7 DEF RestartProgram, Begin, FreshPage, TypeOK
<1> QED
  BY <1>1, <1>2, <1>3, <1>4, <1>5, <1>6, <1>7 DEF Next

\* Every step keeps the buffers within the page, one after the other.
LEMMA LayoutStep ==
  ASSUME TypeOK, Layout, [Next]_vars PROVE Layout'
<1> DEFINE Limit == (MMAP_LENGTH * 3) \div 4
<1>1. /\ Limit \in Int /\ MMAP_LENGTH \in Nat /\ OFFSET_ADDITION \in Nat /\ alloced_mem_ \in Nat
      /\ buffers \in Seq(Buffer) /\ Len(buffers) \in Nat /\ DOMAIN buffers = 1..Len(buffers)
      /\ \A i \in DOMAIN buffers : buffers[i].addr \in Int /\ buffers[i].len \in Nat
  <2>1. buffers \in Seq(Buffer) /\ Len(buffers) \in Nat /\ DOMAIN buffers = 1..Len(buffers)
    BY LenProperties DEF TypeOK, Buffer
  <2>2. \A i \in DOMAIN buffers : buffers[i] \in Buffer
    BY <2>1, ElementOfSeq
  <2> QED
    BY <2>1, <2>2, Numbers DEF Buffer, TypeOK
<1> HIDE DEF Limit
<1>2. CASE UNCHANGED <<buffers, alloced_mem_>>
  BY <1>2 DEF Layout
<1>3. ASSUME NEW n \in Sizes, CreateBuffer(n) PROVE Layout'
  <2>1. n \in Nat /\ alloced_mem_' = alloced_mem_ + n /\ alloced_mem_' \in Nat
    BY <1>1, <1>3, Numbers DEF CreateBuffer
  <2>2. CASE buffers' = buffers
    <3>1. \A i \in DOMAIN buffers : buffers[i].addr >= MMAP_LENGTH - alloced_mem_' - OFFSET_ADDITION
      <4> SUFFICES ASSUME NEW i \in DOMAIN buffers
                   PROVE  buffers[i].addr >= MMAP_LENGTH - alloced_mem_' - OFFSET_ADDITION
        OBVIOUS
      <4>1. PICK addr \in Int : addr = buffers[i].addr
        BY <1>1
      <4>2. addr >= MMAP_LENGTH - alloced_mem_ - OFFSET_ADDITION
        BY <4>1 DEF Layout
      <4> QED
        BY <1>1, <2>1, <4>1, <4>2
    <3> QED
      BY <2>2, <3>1 DEF Layout
  <2>3. CASE buffers' # buffers
    <3> DEFINE new == [addr |-> MMAP_LENGTH - (alloced_mem_' + OFFSET_ADDITION), len |-> n,
                       val |-> Unknown]
    <3>1. buffers' = Append(buffers, new) /\ alloced_mem_' < Limit
      BY <1>3, <2>3 DEF CreateBuffer, Limit
    <3>2. /\ DOMAIN buffers' = 1..Len(buffers) + 1
          /\ \A i \in DOMAIN buffers : buffers'[i] = buffers[i]
          /\ buffers'[Len(buffers) + 1] = new
      BY <1>1, <3>1
    <3>3. new.addr = MMAP_LENGTH - (alloced_mem_' + OFFSET_ADDITION) /\ new.len = n
      OBVIOUS
    <3> HIDE DEF new
    <3>4. /\ new.addr + new.len <= MMAP_LENGTH - OFFSET_ADDITION
          /\ new.addr > MMAP_LENGTH - Limit - OFFSET_ADDITION
          /\ new.addr >= MMAP_LENGTH - alloced_mem_' - OFFSET_ADDITION
          /\ new.addr + new.len = MMAP_LENGTH - alloced_mem_ - OFFSET_ADDITION
      <4>1. PICK old \in Nat, more \in Nat, addr \in Int, lim \in Int :
              old = alloced_mem_ /\ more = alloced_mem_' /\ addr = new.addr /\ lim = Limit
        BY <1>1, <2>1, <3>3
      <4>2. addr = MMAP_LENGTH - (more + OFFSET_ADDITION) /\ more = old + n /\ more < lim
        BY <2>1, <3>1, <3>3, <4>1
      <4>3. /\ addr + n <= MMAP_LENGTH - OFFSET_ADDITION
            /\ addr > MMAP_LENGTH - lim - OFFSET_ADDITION
            /\ addr >= MMAP_LENGTH - more - OFFSET_ADDITION
            /\ addr + n = MMAP_LENGTH - old - OFFSET_ADDITION
        BY <1>1, <2>1, <4>2
      <4> QED
        BY <3>3, <4>1, <4>3
    <3>5. ASSUME NEW i \in DOMAIN buffers'
          PROVE  /\ buffers'[i].addr + buffers'[i].len <= MMAP_LENGTH - OFFSET_ADDITION
                 /\ buffers'[i].addr > MMAP_LENGTH - Limit - OFFSET_ADDITION
                 /\ buffers'[i].addr >= MMAP_LENGTH - alloced_mem_' - OFFSET_ADDITION
      <4>1. CASE i = Len(buffers) + 1
        BY <3>2, <3>4, <4>1
      <4>2. CASE i # Len(buffers) + 1
        <5>1. i \in DOMAIN buffers /\ buffers'[i] = buffers[i]
          BY <1>1, <3>2, <4>2
        <5> QED
          BY <1>1, <2>1, <5>1 DEF Layout, Limit
      <4> QED
        BY <4>1, <4>2
    <3>6. ASSUME NEW i \in DOMAIN buffers', NEW j \in DOMAIN buffers', i < j
          PROVE  buffers'[j].addr + buffers'[j].len <= buffers'[i].addr
      <4>1. i \in DOMAIN buffers /\ buffers'[i] = buffers[i]
        BY <1>1, <3>2, <3>6
      <4>2. CASE j = Len(buffers) + 1
        BY <1>1, <3>2, <3>4, <4>1, <4>2 DEF Layout
      <4>3. CASE j # Len(buffers) + 1
        <5>1. j \in DOMAIN buffers /\ buffers'[j] = buffers[j]
          BY <1>1, <3>2, <4>3
        <5> QED
          BY <3>6, <4>1, <5>1 DEF Layout
      <4> QED
        BY <4>2, <4>3
    <3> QED
      BY <3>5, <3>6 DEF Layout, Limit
  <2> QED
    BY <2>2, <2>3
<1>4. ASSUME NEW i \in DOMAIN buffers, NEW b, SetValue(i, b) \/ ProgramWrites(i, b) PROVE Layout'
  <2>1. buffers' = [buffers EXCEPT ![i].val = b] /\ alloced_mem_' = alloced_mem_
    BY <1>4 DEF SetValue, ProgramWrites
  <2>2. /\ DOMAIN buffers' = DOMAIN buffers
        /\ \A j \in DOMAIN buffers : /\ buffers'[j].addr = buffers[j].addr
                                     /\ buffers'[j].len = buffers[j].len
    <3>1. \A j \in DOMAIN buffers : buffers[j] \in Buffer
      BY <1>1, ElementOfSeq
    <3> QED
      BY <1>1, <2>1, <3>1 DEF Buffer
  <2> QED
    BY <2>1, <2>2 DEF Layout
<1>5. CASE RestartProgram
  BY <1>5 DEF RestartProgram, Layout
<1> QED
  BY <1>2, <1>3, <1>4, <1>5 DEF Next, vars, CallFunction, FunctionReturns
\* A step keeps the breakpoint of a call in progress: the grader prepares a call before the
\* program runs, and the program writes only to buffers, all of them above the breakpoint.
LEMMA BreakpointStep ==
  ASSUME TypeOK, Layout, BreakpointStands, [Next]_vars PROVE BreakpointStands'
<1>1. CASE UNCHANGED <<mem, pc>>
  BY <1>1 DEF BreakpointStands
<1>2. CASE pc' # "call"
  BY <1>2 DEF BreakpointStands
<1>3. ASSUME NEW sizes \in ArgLists, NEW b \in Bytes \ {0}, CallFunction(sizes, b)
      PROVE  BreakpointStands'
  <2>1. b \in Int /\ mem \in [Page -> Int] /\ sizes \in Seq(Nat)
    BY BytesAssumption, ArgListsType DEF TypeOK
  <2>2. \A i \in 1..Word : mem'[i - 1] = Breakpoint[i]
    BY <1>3, <2>1, CallWritesBreakpoint DEF CallFunction
  <2> QED
    BY <2>2 DEF BreakpointStands
<1>4. ASSUME NEW i \in DOMAIN buffers, NEW b \in Bytes, ProgramWrites(i, b)
      PROVE  BreakpointStands'
  <2>1. PICK addr \in Int : addr = buffers[i].addr /\ addr > Word
    <3>1. buffers \in Seq(Buffer)
      BY DEF TypeOK, Buffer
    <3>2. buffers[i] \in Buffer
      BY <3>1, ElementOfSeq
    <3>3. PICK addr \in Int, lim \in Int : addr = buffers[i].addr /\ lim = (MMAP_LENGTH * 3) \div 4
      BY <3>2, Numbers DEF Buffer
    <3>4. addr > MMAP_LENGTH - lim - OFFSET_ADDITION
      BY <3>3 DEF Layout
    <3>5. MMAP_LENGTH - lim >= OFFSET_ADDITION + Word
      BY <3>3, Numbers
    <3>6. addr > Word
      BY <3>4, <3>5, Numbers
    <3> QED
      BY <3>3, <3>6
  <2>2. mem' = [a \in Page |-> IF a \in Span(buffers[i]) THEN b ELSE mem[a]]
    BY <1>4 DEF ProgramWrites
  <2>3. ASSUME NEW k \in 1..Word PROVE mem'[k - 1] = mem[k - 1]
    <3>1. k - 1 \in Page /\ k - 1 < addr
      BY <2>1, Numbers DEF Page
    <3>2. k - 1 \notin Span(buffers[i])
      BY <2>1, <3>1 DEF Span
    <3> QED
      BY <2>2, <3>1, <3>2
  <2> QED
    BY <1>4, <2>3 DEF BreakpointStands, ProgramWrites, Breakpoint
<1>5. ASSUME NEW i \in DOMAIN buffers, NEW b, SetValue(i, b) PROVE pc' # "call"
  BY <1>5 DEF SetValue, Begin
<1>6. ASSUME NEW n, CreateBuffer(n) PROVE pc' # "call"
  BY <1>6 DEF CreateBuffer, Begin
<1>7. FunctionReturns \/ RestartProgram => pc' # "call"
  BY DEF FunctionReturns, RestartProgram, Begin
<1> QED
  BY <1>1, <1>2, <1>3, <1>4, <1>5, <1>6, <1>7 DEF Next, vars

\* Types, the layout of the page and the breakpoint hold whenever the grader looks.
THEOREM DisciplineInvariant == Spec => []MemoryDiscipline
<1>1. Init => MemoryDiscipline
  <2> SUFFICES ASSUME Init PROVE MemoryDiscipline
    OBVIOUS
  <2>1. TypeOK
    BY DEF Init, TypeOK, FreshPage
  <2>2. Layout
    BY DEF Init, Layout
  <2>3. BreakpointStands
    BY DEF Init, BreakpointStands
  <2> QED
    BY <2>1, <2>2, <2>3 DEF MemoryDiscipline
<1>2. MemoryDiscipline /\ [Next]_vars => MemoryDiscipline'
  BY TypeStep, LayoutStep, BreakpointStep DEF MemoryDiscipline
<1> QED
  BY <1>1, <1>2, PTL DEF Spec

\* program.cpp:102-113: alloc_mem hands out disjoint buffers, clear of the return breakpoint
\* and of every argument that fits below its limit, across restarts too.
THEOREM BuffersApartCorrect == Spec => []BuffersApart
<1>1. ASSUME TypeOK, Layout PROVE BuffersApart
  <2>1. PICK lim \in Int : lim = (MMAP_LENGTH * 3) \div 4
    BY Numbers
  <2>2. ASSUME NEW i \in DOMAIN buffers
        PROVE  \E addr \in Int, len \in Nat :
                 /\ addr = buffers[i].addr /\ len = buffers[i].len
                 /\ addr + len <= MMAP_LENGTH /\ addr > Word
                 /\ addr > MMAP_LENGTH - lim - OFFSET_ADDITION
    <3>1. buffers \in Seq(Buffer)
      BY <1>1 DEF TypeOK, Buffer
    <3>2. buffers[i] \in Buffer
      BY <3>1, ElementOfSeq
    <3>3. PICK addr \in Int, len \in Nat : addr = buffers[i].addr /\ len = buffers[i].len
      BY <3>2, Numbers DEF Buffer
    <3>4. addr + len <= MMAP_LENGTH - OFFSET_ADDITION /\ addr > MMAP_LENGTH - lim - OFFSET_ADDITION
      BY <1>1, <2>1, <3>3 DEF Layout
    <3>5. MMAP_LENGTH - lim >= OFFSET_ADDITION + Word
      BY <2>1, Numbers
    <3>6. addr + len <= MMAP_LENGTH /\ addr > Word
      BY <2>1, <3>4, <3>5, Numbers
    <3> QED
      BY <3>3, <3>4, <3>6
  <2>3. ASSUME NEW i \in DOMAIN buffers, NEW j \in DOMAIN buffers, i < j
        PROVE  Span(buffers[i]) \cap Span(buffers[j]) = {}
    <3>1. PICK low \in Int, len \in Nat : low = buffers[j].addr /\ len = buffers[j].len
      BY <2>2
    <3>2. PICK high \in Int : high = buffers[i].addr
      BY <2>2
    <3>3. low + len <= high
      BY <1>1, <2>3, <3>1, <3>2 DEF Layout
    <3> QED
      BY <3>1, <3>2, <3>3 DEF Span
  <2>4. ASSUME NEW i \in DOMAIN buffers, NEW j \in DOMAIN buffers, i # j
        PROVE  Span(buffers[i]) \cap Span(buffers[j]) = {}
    <3>1. i \in Int /\ j \in Int
      <4>1. buffers \in Seq(Buffer)
        BY <1>1 DEF TypeOK, Buffer
      <4>2. Len(buffers) \in Nat /\ DOMAIN buffers = 1..Len(buffers)
        BY <4>1, LenProperties
      <4> QED
        BY <4>2
    <3> QED
      BY <2>3, <2>4, <3>1
  <2>5. ASSUME NEW i \in DOMAIN buffers
        PROVE  /\ Span(buffers[i]) \subseteq Page \ 0..Word-1
               /\ \A k \in DOMAIN args : Span(args[k]) \subseteq ArgRoom =>
                    Span(buffers[i]) \cap Span(args[k]) = {}
    <3>1. PICK addr \in Int, len \in Nat :
            /\ addr = buffers[i].addr /\ len = buffers[i].len
            /\ addr + len <= MMAP_LENGTH /\ addr > Word
            /\ addr > MMAP_LENGTH - lim - OFFSET_ADDITION
      BY <2>2
    <3>2. Span(buffers[i]) = addr..(addr + len - 1)
      BY <3>1 DEF Span
    <3>3. Span(buffers[i]) \subseteq Page \ 0..Word-1
      BY <3>1, <3>2, Numbers DEF Page
    <3>4. ArgRoom = 0..(MMAP_LENGTH - lim - OFFSET_ADDITION)
      BY <2>1 DEF ArgRoom
    <3>5. ArgRoom \cap Span(buffers[i]) = {}
      BY <3>1, <3>2, <3>4, Numbers
    <3> QED
      BY <3>3, <3>5
  <2> QED
    BY <2>4, <2>5 DEF BuffersApart
<1> QED
  BY <1>1, DisciplineInvariant, PTL DEF MemoryDiscipline

\* tracer.cpp:455-456: whatever the sizes of the arguments, the breakpoint a function returns
\* to is there while the program runs.
THEOREM BreakpointStandsCorrect == Spec => []BreakpointStands
  BY DisciplineInvariant, PTL DEF MemoryDiscipline

\* Setting a buffer puts its bytes in place and spoils at most the Word-1 bytes below it.
THEOREM WriteFrameCorrect == Spec => WriteFrame
<1> DEFINE Frame == \A i \in DOMAIN buffers, b \in Bytes : SetValue(i, b) =>
              \A a \in Page :
                mem'[a] = IF a \in Span(buffers[i]) THEN b
                          ELSE IF /\ buffers[i].len < Word
                                  /\ a \in (buffers[i].addr + buffers[i].len - Word)
                                             ..(buffers[i].addr - 1)
                          THEN 0 ELSE mem[a]
<1>1. ASSUME TypeOK PROVE Frame
  <2> SUFFICES ASSUME NEW i \in DOMAIN buffers, NEW b \in Bytes, SetValue(i, b), NEW a \in Page
               PROVE  mem'[a] = IF a \in Span(buffers[i]) THEN b
                                ELSE IF /\ buffers[i].len < Word
                                        /\ a \in (buffers[i].addr + buffers[i].len - Word)
                                                   ..(buffers[i].addr - 1)
                                THEN 0 ELSE mem[a]
    OBVIOUS
  <2>1. mem' = WriteBlock(mem, buffers[i].addr, Filled(buffers[i].len, b)) /\ b \in Int
    BY BytesAssumption DEF SetValue
  <2> QED
    BY <1>1, <2>1, SetBuffer
<1>2. TypeOK => [Frame]_vars
  BY <1>1
<1> HIDE DEF Frame
<1>3. MemoryDiscipline => [Frame]_vars
  BY <1>2 DEF MemoryDiscipline
<1>4. Spec => [][Frame]_vars
  BY <1>3, DisciplineInvariant, PTL
<1> QED
  BY <1>4 DEF WriteFrame, Frame

----------------------------------------------------------------------------
(* read_block_impl *)

\* The bytes of memory m from an address on.
Bytewise(m, address, k) == [i \in 1..k |-> m[address + i - 1]]

\* A turn of the loop adds bytes to a prefix of the range, and never goes past its end.
LEMMA ReadTurn ==
  ASSUME NEW m, NEW address \in Int, NEW n \in Nat, NEW k \in Nat, k < n
  PROVE  \E l \in (k+1)..n :
           ReadWord(m, address, n, Bytewise(m, address, k)) = Bytewise(m, address, l)
<1> DEFINE S == {m[a] : a \in Int}
           bytes == Bytewise(m, address, k)
<1>1. Word \in Nat /\ Word > 0
  BY Numbers
<1>2. bytes \in Seq(S) /\ Len(bytes) = k
  BY DEF Bytewise
<1>3. PICK at \in Int : at = address + k
  OBVIOUS
<1>4. PICK skip \in Nat : skip = at % Word /\ skip < Word
  BY <1>1
<1>5. Aligned(at) = at - skip
  BY <1>4 DEF Aligned
<1>6. PICK todo \in Nat : todo = IF n - k < Word - skip THEN n - k ELSE Word - skip
  BY <1>1, <1>4
<1>7. todo > 0 /\ skip + todo <= Word /\ k + todo <= n
  BY <1>1, <1>4, <1>6
<1> DEFINE word == [i \in 1..Word |-> m[at - skip + i - 1]]
           piece == SubSeq(word, skip + 1, skip + todo)
<1>8. ReadWord(m, address, n, bytes) = bytes \o piece
  <2>1. at - Aligned(at) = skip
    BY <1>3, <1>4, <1>5
  <2> HIDE DEF bytes, piece
  <2>2. ReadWord(m, address, n, bytes) =
          LET s == at - Aligned(at)
              t == IF n - k < Word - s THEN n - k ELSE Word - s
              w == [i \in 1..Word |-> m[Aligned(at) + i - 1]]
          IN  bytes \o SubSeq(w, s + 1, s + t)
    BY <1>2, <1>3 DEF ReadWord
  <2> QED
    BY <1>5, <1>6, <2>1, <2>2 DEF piece
<1>9. word \in Seq(S) /\ Len(word) = Word
  BY <1>1
<1>10. /\ piece \in Seq(S) /\ Len(piece) = todo
       /\ \A i \in 1..todo : piece[i] = m[at + i - 1]
  <2>2. word \in [1..Word -> S]
    BY <1>1
  <2> HIDE DEF S
  <2>1. skip + 1 \in 1..Word + 1 /\ skip + todo \in skip..Word
    BY <1>1, <1>4, <1>7
  <2>3. piece = [i \in 1..todo |-> word[skip + i]]
    BY <1>1, <1>4, <1>7, <1>9
  <2>4. ASSUME NEW i \in 1..todo PROVE word[skip + i] = m[at + i - 1] /\ word[skip + i] \in S
    <3>1. skip + i \in 1..Word /\ at - skip + (skip + i) - 1 = at + i - 1
      BY <1>1, <1>4, <1>7
    <3> QED
      BY <2>2, <3>1
  <2> HIDE DEF piece, word
  <2> QED
    BY <2>3, <2>4
<1> HIDE DEF piece, S
<1>11. bytes \o piece = Bytewise(m, address, k + todo)
  <2>1. /\ bytes \o piece \in Seq(S) /\ Len(bytes \o piece) = k + todo
        /\ \A i \in 1..(k + todo) : (bytes \o piece)[i] = IF i <= k THEN bytes[i] ELSE piece[i - k]
    <3> HIDE DEF bytes
    <3> QED
      BY <1>2, <1>10
  <2>2. ASSUME NEW i \in 1..(k + todo) PROVE (bytes \o piece)[i] = m[address + i - 1]
    <3>1. CASE i <= k
      BY <2>1, <3>1 DEF Bytewise
    <3>2. CASE ~ (i <= k)
      <4>1. i - k \in 1..todo /\ at + (i - k) - 1 = address + i - 1
        BY <1>3, <3>2
      <4> QED
        BY <1>10, <2>1, <3>2, <4>1
    <3> QED
      BY <3>1, <3>2
  <2> DEFINE both == bytes \o piece
  <2>3. both = [i \in 1..(k + todo) |-> both[i]]
    <3>1. both \in Seq(S) /\ Len(both) = k + todo
      BY <2>1
    <3> HIDE DEF both
    <3>2. both \in [1..(k + todo) -> S]
      BY <3>1, LenProperties
    <3> QED
      BY <3>2
  <2> QED
    BY <2>2, <2>3 DEF Bytewise
<1>12. k + todo \in (k+1)..n
  BY <1>7
<1> QED
  BY <1>8, <1>11, <1>12

\* PtraceMemoryIO::read_block_impl returns exactly the bytes of its range, wherever the range
\* starts within a word and however long it is, or the error of a word that is not mapped.
THEOREM ReadBlockExact ==
  ASSUME NEW m, NEW address \in Int, NEW n \in Nat
  PROVE  ReadBlock(m, address, n) =
           IF address..(address + n - 1) \subseteq Page THEN [i \in 1..n |-> m[address + i - 1]]
           ELSE SyscallFailure
<1> DEFINE V == {Bytewise(m, address, k) : k \in 0..n}
           next(bytes) == IF Len(bytes) = n THEN bytes ELSE ReadWord(m, address, n, bytes)
           step == [p \in V \X (1..n) |-> next(p[1])]
           turns == ReadTurns(m, address, n)
<1>1. \A k \in 0..n : Len(Bytewise(m, address, k)) = k
  BY DEF Bytewise
<1>2. <<>> = Bytewise(m, address, 0)
  BY DEF Bytewise
<1>3. ASSUME NEW k \in 0..n
      PROVE  \E l \in 0..n : /\ next(Bytewise(m, address, k)) = Bytewise(m, address, l)
                             /\ l = n \/ l > k
  <2>1. CASE k = n
    BY <1>1, <2>1
  <2>2. CASE k # n
    <3>1. Len(Bytewise(m, address, k)) # n
      BY <1>1, <2>2
    <3>2. PICK l \in (k+1)..n :
            ReadWord(m, address, n, Bytewise(m, address, k)) = Bytewise(m, address, l)
      BY <2>2, ReadTurn
    <3> QED
      BY <3>1, <3>2
  <2> QED
    BY <2>1, <2>2
<1>4. Bytewise(m, address, 0) \in V /\ \A bytes \in V : next(bytes) \in V
  BY <1>3
<1> HIDE DEF V
<1>5. PICK f : IsRecursive(f, V, n, <<>>, step)
  <2>1. step \in [V \X (1..n) -> V]
    BY <1>4
  <2>2. Recursible(V, n, <<>>, step)
    BY <1>2, <1>4, <2>1 DEF Recursible
  <2> QED
    BY <2>2, Recursion
<1> HIDE DEF next
<1>6. f = [k \in 0..n |-> IF k = 0 THEN <<>> ELSE next(f[k - 1])]
  <2>1. ASSUME NEW k \in 1..n PROVE f[k] = next(f[k - 1])
    <3>1. f[k - 1] \in V
      BY <1>5 DEF IsRecursive
    <3> QED
      BY <1>5, <3>1 DEF IsRecursive
  <2>2. \A k \in 0..n : f[k] = IF k = 0 THEN <<>> ELSE next(f[k - 1])
    BY <1>5, <2>1 DEF IsRecursive
  <2> QED
    BY <1>5, <2>2 DEF IsRecursive
<1>7. turns = CHOOSE g : g = [k \in 0..n |-> IF k = 0 THEN <<>> ELSE next(g[k - 1])]
  BY DEF ReadTurns, next
<1> HIDE DEF turns
<1>8. turns = [k \in 0..n |-> IF k = 0 THEN <<>> ELSE next(turns[k - 1])]
  BY <1>6, <1>7, Zenon
<1> DEFINE T == {k \in 0..n : \E l \in k..n : turns[k] = Bytewise(m, address, l)}
<1>9. 0 \in T
  BY <1>2, <1>8
<1>10. ASSUME NEW k \in 1..n, k - 1 \in T PROVE k \in T
  <2>1. PICK j \in (k-1)..n : turns[k - 1] = Bytewise(m, address, j)
    BY <1>10
  <2>2. turns[k] = next(Bytewise(m, address, j))
    BY <1>8, <2>1
  <2>3. PICK l \in 0..n : next(Bytewise(m, address, j)) = Bytewise(m, address, l) /\ (l = n \/ l > j)
    BY <1>3, <2>1
  <2> QED
    BY <2>1, <2>2, <2>3
<1>11. \A k \in 0..n : k \in T
  <2> HIDE DEF T
  <2> QED
    BY <1>9, <1>10, BoundedInduction
<1>12. turns[n] = Bytewise(m, address, n)
  BY <1>11
<1> QED
  BY <1>12 DEF ReadBlock, Mapped, turns, Bytewise

\* Every buffer is read back byte by byte as it lies in the page.
THEOREM BlocksExactCorrect == Spec => []BlocksExact
<1>1. ASSUME TypeOK, BuffersApart PROVE BlocksExact
  <2> SUFFICES ASSUME NEW i \in DOMAIN buffers
               PROVE  ReadBlock(mem, buffers[i].addr, buffers[i].len)
                        = [k \in 1..buffers[i].len |-> mem[buffers[i].addr + k - 1]]
    BY DEF BlocksExact
  <2>1. buffers \in Seq(Buffer)
    BY <1>1 DEF TypeOK, Buffer
  <2>2. buffers[i] \in Buffer
    BY <2>1, ElementOfSeq
  <2>3. buffers[i].addr \in Int /\ buffers[i].len \in Nat
    BY <2>2, Numbers DEF Buffer
  <2>4. buffers[i].addr..(buffers[i].addr + buffers[i].len - 1) \subseteq Page
    BY <1>1 DEF BuffersApart, Span
  <2> QED
    BY <2>3, <2>4, ReadBlockExact
<1> QED
  BY <1>1, DisciplineInvariant, BuffersApartCorrect, PTL DEF MemoryDiscipline

----------------------------------------------------------------------------
(* read_until, for strings *)

\* The loop's state when n bytes of the page have been read, none of them zero: it goes on,
\* or there is a zero behind them, or the next word was not mapped.
Reading(s, m, address, n) ==
  /\ address + n <= MMAP_LENGTH
  /\ \A i \in 1..n : m[address + i - 1] # 0
  /\ \/ s = [result |-> Bytewise(m, address, n), ended |-> FALSE]
     \/ /\ s = [result |-> Bytewise(m, address, n), ended |-> TRUE]
        /\ address + n < MMAP_LENGTH /\ m[address + n] = 0
     \/ /\ s = [result |-> SyscallFailure, ended |-> TRUE]
        /\ address + n + Word > MMAP_LENGTH

\* A turn reads one more word, or the part of it before a zero, or fails.
LEMMA UntilTurn ==
  ASSUME NEW m, NEW address \in Nat, NEW n \in Nat, NEW s,
         s = [result |-> Bytewise(m, address, n), ended |-> FALSE],
         address + n <= MMAP_LENGTH, \A i \in 1..n : m[address + i - 1] # 0
  PROVE  \E l \in Nat : /\ Reading(ReadUntilZero(m, address, s), m, address, l)
                        /\ ReadUntilZero(m, address, s).ended \/ l > n
<1> DEFINE at == address + Len(s.result)
           block == ReadBlock(m, at, Word)
           zeros == {i \in 1..Word : block[i] = 0}
<1>1. Len(Bytewise(m, address, n)) = n /\ s.result = Bytewise(m, address, n)
  BY DEF Bytewise
<1>2. at = address + n /\ Word \in Nat /\ Word > 0 /\ MMAP_LENGTH \in Nat
  BY <1>1, Numbers
<1>3. Mapped(at, Word) <=> address + n + Word <= MMAP_LENGTH
  <2> HIDE DEF at
  <2>1. PICK a \in Nat : a = address + n /\ a = at
    BY <1>2
  <2>2. CASE Mapped(at, Word)
    <3>1. a + Word - 1 \in a..(a + Word - 1)
      BY <1>2
    <3>2. a + Word - 1 \in 0..(MMAP_LENGTH - 1)
      BY <2>1, <2>2, <3>1 DEF Mapped, Page
    <3> QED
      BY <1>2, <2>1, <2>2, <3>2
  <2>3. CASE a + Word <= MMAP_LENGTH
    BY <1>2, <2>1, <2>3 DEF Mapped, Page
  <2> QED
    BY <2>1, <2>2, <2>3
<1>4. CASE ~Mapped(at, Word)
  <2>1. block = SyscallFailure
    BY <1>4 DEF ReadBlock
  <2>2. ReadUntilZero(m, address, s) = [result |-> block, ended |-> TRUE]
    BY <1>4 DEF ReadUntilZero
  <2>3. ReadUntilZero(m, address, s) = [result |-> SyscallFailure, ended |-> TRUE]
    BY <2>1, <2>2
  <2>4. address + n + Word > MMAP_LENGTH
    BY <1>2, <1>3, <1>4
  <2>5. Reading(ReadUntilZero(m, address, s), m, address, n)
    BY <2>3, <2>4 DEF Reading
  <2> QED
    BY <2>3, <2>5
<1>5. ASSUME Mapped(at, Word)
      PROVE  /\ block = Bytewise(m, address + n, Word)
             /\ \A i \in 1..Word : block[i] = m[address + (n + i) - 1]
             /\ \A k \in 0..Word :
                  Bytewise(m, address, n) \o SubSeq(block, 1, k) = Bytewise(m, address, n + k)
  <2>1. block = Bytewise(m, address + n, Word)
    <3> HIDE DEF block
    <3>1. block = ReadBlock(m, address + n, Word)
      BY <1>2 DEF block
    <3>2. address + n \in Int /\ (address + n)..(address + n + Word - 1) \subseteq Page
      BY <1>2, <1>5 DEF Mapped
    <3> QED
      BY <1>2, <3>1, <3>2, ReadBlockExact DEF Bytewise
  <2>2. \A i \in 1..Word : (address + n) + i - 1 = address + (n + i) - 1
    BY <1>2
  <2>3. \A i \in 1..Word : block[i] = m[address + (n + i) - 1]
    BY <2>1, <2>2 DEF Bytewise
  <2>4. ASSUME NEW k \in 0..Word
        PROVE  Bytewise(m, address, n) \o SubSeq(block, 1, k) = Bytewise(m, address, n + k)
    <3>1. Word \in Nat /\ k \in Nat
      BY <1>2
    <3>2. SubSeq(block, 1, k) = Bytewise(m, address + n, k)
      <4>1. SubSeq(block, 1, k) = [i \in 1..k |-> block[i]]
        BY <2>1, <3>1 DEF Bytewise
      <4> QED
        BY <2>1, <3>1, <4>1 DEF Bytewise
    <3> QED
      BY <3>1, <3>2 DEF Bytewise
  <2> QED
    BY <2>1, <2>3, <2>4
<1>6. CASE Mapped(at, Word) /\ zeros = {}
  <2>1. ReadUntilZero(m, address, s) = [s EXCEPT !.result = @ \o block]
    BY <1>6 DEF ReadUntilZero
  <2>2. block = SubSeq(block, 1, Word)
    BY <1>2, <1>5, <1>6 DEF Bytewise
  <2>3. s.result \o block = Bytewise(m, address, n + Word)
    <3>1. Word \in 0..Word
      BY <1>2
    <3> QED
      BY <1>1, <1>5, <1>6, <2>2, <3>1, Zenon
  <2>4. ReadUntilZero(m, address, s) =
          [result |-> Bytewise(m, address, n + Word), ended |-> FALSE]
    <3> HIDE DEF block
    <3> QED
      BY <2>1, <2>3, Zenon
  <2>5. ASSUME NEW i \in 1..(n + Word) PROVE m[address + i - 1] # 0
    <3>1. CASE i <= n
      BY <3>1
    <3>2. CASE i > n
      <4>1. i - n \in 1..Word /\ n + (i - n) = i
        BY <1>2, <3>2
      <4> QED
        BY <1>5, <1>6, <4>1
    <3> QED
      BY <1>2, <3>1, <3>2
  <2>6. n + Word \in Nat /\ n + Word > n /\ address + (n + Word) <= MMAP_LENGTH
    BY <1>2, <1>3, <1>6
  <2>7. Reading(ReadUntilZero(m, address, s), m, address, n + Word)
    BY <2>4, <2>5, <2>6 DEF Reading
  <2> QED
    BY <2>6, <2>7
<1>7. CASE Mapped(at, Word) /\ zeros # {}
  <2> DEFINE z == CHOOSE i \in zeros : \A j \in zeros : i <= j
  <2>1. z \in zeros /\ \A j \in zeros : z <= j
    <3>1. \E i \in zeros : \A j \in zeros : i <= j
      <4>1. \A i \in zeros : i \in Nat
        BY <1>2
      <4> HIDE DEF zeros
      <4> QED
        BY <1>7, <4>1, SmallestExists
    <3> QED
      BY <3>1
  <2>2. ReadUntilZero(m, address, s) =
          [result |-> s.result \o SubSeq(block, 1, z - 1), ended |-> TRUE]
    BY <1>7 DEF ReadUntilZero
  <2> HIDE DEF z
  <2>3. z \in 1..Word /\ block[z] = 0 /\ \A j \in 1..Word : j < z => block[j] # 0
    BY <1>2, <2>1
  <2> DEFINE l == n + (z - 1)
  <2>4. /\ l \in Nat /\ z - 1 \in 0..Word /\ address + (n + z) - 1 = address + l
        /\ address + l < MMAP_LENGTH
    BY <1>2, <1>3, <1>7, <2>3
  <2>5. ReadUntilZero(m, address, s) = [result |-> Bytewise(m, address, l), ended |-> TRUE]
    BY <1>1, <1>5, <1>7, <2>2, <2>4
  <2>6. ASSUME NEW i \in 1..l PROVE m[address + i - 1] # 0
    <3>1. CASE i <= n
      BY <3>1, <2>4
    <3>2. CASE i > n
      <4>1. i - n \in 1..Word /\ n + (i - n) = i /\ i - n < z
        BY <1>2, <2>3, <2>4, <3>2
      <4>2. block[i - n] # 0
        BY <2>3, <4>1
      <4>3. block[i - n] = m[address + (n + (i - n)) - 1]
        BY <1>5, <1>7, <4>1
      <4> HIDE DEF block
      <4> QED
        BY <4>1, <4>2, <4>3
    <3> QED
      BY <3>1, <3>2, <2>4
  <2>7. m[address + l] = 0
    BY <1>5, <1>7, <2>3, <2>4
  <2> HIDE DEF l
  <2>8. address + l <= MMAP_LENGTH
    BY <1>2, <2>4
  <2>9. Reading(ReadUntilZero(m, address, s), m, address, l)
    BY <2>4, <2>5, <2>6, <2>7, <2>8 DEF Reading
  <2> QED
    BY <2>4, <2>5, <2>9
<1> QED
  BY <1>4, <1>6, <1>7

\* After each turn the loop has ended or has read as many bytes as it made turns.
LEMMA StringTurnsDef ==
  ASSUME NEW m, NEW address \in Nat, address <= MMAP_LENGTH
  PROVE  \A k \in 0..MMAP_LENGTH + 1 : \E n \in Nat :
           /\ Reading(StringTurns(m, address)[k], m, address, n)
           /\ StringTurns(m, address)[k].ended \/ n >= k
<1> DEFINE N == MMAP_LENGTH + 1
           Results == {Bytewise(m, address, n) : n \in Nat} \cup {SyscallFailure}
           V == {s \in [result : Results, ended : BOOLEAN] : \E n \in Nat : Reading(s, m, address, n)}
           first == [result |-> <<>>, ended |-> FALSE]
           next(s) == IF s.ended THEN s ELSE ReadUntilZero(m, address, s)
           step == [p \in V \X (1..N) |-> next(p[1])]
           turn == StringTurns(m, address)
<1>1. N \in Nat
  BY Numbers
<1>2. ASSUME NEW s, NEW n \in Nat, Reading(s, m, address, n) PROVE s \in V
  <2>1. Bytewise(m, address, n) \in Results /\ SyscallFailure \in Results
    OBVIOUS
  <2> HIDE DEF Results
  <2>2. \E r \in Results, e \in BOOLEAN : s = [result |-> r, ended |-> e]
    BY <1>2, <2>1, Zenon DEF Reading
  <2>3. s \in [result : Results, ended : BOOLEAN]
    BY <2>2
  <2> QED
    BY <1>2, <2>3
<1>3. Reading(first, m, address, 0) /\ first \in V
  <2>1. <<>> = Bytewise(m, address, 0)
    BY DEF Bytewise
  <2>2. first = [result |-> Bytewise(m, address, 0), ended |-> FALSE]
    BY <2>1
  <2>3. Reading(first, m, address, 0)
    <3> HIDE DEF first
    <3> QED
      BY <2>2 DEF Reading
  <2> HIDE DEF V, first
  <2>4. 0 \in Nat
    OBVIOUS
  <2>5. first \in V
    BY <1>2, <2>3, <2>4
  <2> QED
    BY <2>3, <2>5
<1>4. ASSUME NEW s, NEW n \in Nat, Reading(s, m, address, n)
      PROVE  \E l \in Nat : /\ Reading(next(s), m, address, l)
                            /\ next(s).ended \/ (~s.ended /\ l > n)
  <2>1. CASE s.ended
    BY <1>4, <2>1
  <2>2. CASE ~s.ended
    <3>1. s = [result |-> Bytewise(m, address, n), ended |-> FALSE]
      BY <1>4, <2>2 DEF Reading
    <3>2. address + n <= MMAP_LENGTH /\ \A i \in 1..n : m[address + i - 1] # 0
      BY <1>4 DEF Reading
    <3>3. PICK l \in Nat : /\ Reading(ReadUntilZero(m, address, s), m, address, l)
                           /\ ReadUntilZero(m, address, s).ended \/ l > n
      BY <3>1, <3>2, UntilTurn
    <3>4. next(s) = ReadUntilZero(m, address, s)
      BY <2>2
    <3> HIDE DEF next
    <3> QED
      BY <2>2, <3>3, <3>4
  <2> QED
    BY <2>1, <2>2
<1>5. ASSUME NEW s \in V PROVE next(s) \in V
  <2>1. PICK n \in Nat : Reading(s, m, address, n)
    OBVIOUS
  <2>2. PICK l \in Nat : Reading(next(s), m, address, l)
    BY <1>4, <2>1
  <2> HIDE DEF next, V
  <2> QED
    BY <1>2, <2>2
<1> HIDE DEF N, V, first, next
<1>6. PICK f : IsRecursive(f, V, N, first, step)
  <2>1. step \in [V \X (1..N) -> V]
    BY <1>5
  <2>2. Recursible(V, N, first, step)
    BY <1>1, <1>3, <2>1 DEF Recursible
  <2> QED
    BY <2>2, Recursion
<1>7. f = [k \in 0..N |-> IF k = 0 THEN first ELSE next(f[k - 1])]
  <2>1. ASSUME NEW k \in 1..N PROVE f[k] = next(f[k - 1])
    <3>1. f[k - 1] \in V
      BY <1>1, <1>6 DEF IsRecursive
    <3> QED
      BY <1>6, <3>1 DEF IsRecursive
  <2>2. \A k \in 0..N : f[k] = IF k = 0 THEN first ELSE next(f[k - 1])
    BY <1>1, <1>6, <2>1 DEF IsRecursive
  <2> QED
    BY <1>6, <2>2 DEF IsRecursive
<1>8. turn = CHOOSE g : g = [k \in 0..N |-> IF k = 0 THEN first ELSE next(g[k - 1])]
  BY DEF StringTurns, N, first, next
<1> HIDE DEF turn
<1>9. turn = [k \in 0..N |-> IF k = 0 THEN first ELSE next(turn[k - 1])]
  BY <1>7, <1>8, Zenon
<1> DEFINE So(s, k) == \E n \in Nat : Reading(s, m, address, n) /\ (s.ended \/ n >= k)
           T == {k \in 0..N : So(turn[k], k)}
<1>10. 0 \in T
  <2>1. turn[0] = first
    BY <1>1, <1>9
  <2>2. So(first, 0)
    BY <1>3
  <2> QED
    BY <1>1, <2>1, <2>2
<1>11. ASSUME NEW k \in 1..N, k - 1 \in T PROVE k \in T
  <2>1. PICK n \in Nat : Reading(turn[k - 1], m, address, n) /\ (turn[k - 1].ended \/ n >= k - 1)
    BY <1>11
  <2>2. k \in Nat /\ turn[k] = next(turn[k - 1])
    BY <1>1, <1>9
  <2>3. PICK l \in Nat : /\ Reading(next(turn[k - 1]), m, address, l)
                         /\ next(turn[k - 1]).ended \/ (~turn[k - 1].ended /\ l > n)
    BY <1>4, <2>1
  <2>4. next(turn[k - 1]).ended \/ l >= k
    BY <2>1, <2>2, <2>3
  <2>5. So(turn[k], k)
    BY <2>2, <2>3, <2>4
  <2> QED
    BY <2>5
<1>12. \A k \in 0..N : k \in T
  <2> HIDE DEF T
  <2> QED
    BY <1>1, <1>10, <1>11, BoundedInduction
<1> QED
  BY <1>12 DEF N, turn

\* memory_io_base.cpp:16-34: a string is read up to its terminator.  The read fails only if
\* no byte is zero from where it starts to the beginning of the page's last word: the words
\* it reads start at its own address, so the last of them may cross the end of the page even
\* if the terminator is before it.
THEOREM ReadStringExact ==
  ASSUME NEW m, NEW address \in Nat, address < MMAP_LENGTH
  PROVE  \/ \E n \in Nat : /\ ReadString(m, address) = Bytewise(m, address, n)
                           /\ \A i \in 1..n : m[address + i - 1] # 0
                           /\ address + n < MMAP_LENGTH /\ m[address + n] = 0
         \/ /\ ReadString(m, address) = SyscallFailure
            /\ \A a \in address..(MMAP_LENGTH - Word) : m[a] # 0
<1> DEFINE s == StringTurns(m, address)[MMAP_LENGTH + 1]
<1>1. MMAP_LENGTH \in Nat /\ MMAP_LENGTH + 1 \in 0..MMAP_LENGTH + 1 /\ Word \in Nat
  BY Numbers
<1>2. PICK n \in Nat : Reading(s, m, address, n) /\ (s.ended \/ n >= MMAP_LENGTH + 1)
  <2>1. address <= MMAP_LENGTH
    BY <1>1
  <2> QED
    BY <1>1, <2>1, StringTurnsDef
<1>3. ReadString(m, address) = s.result
  BY DEF ReadString
<1> HIDE DEF s
<1>4. address + n <= MMAP_LENGTH /\ \A i \in 1..n : m[address + i - 1] # 0
  BY <1>2 DEF Reading
<1>5. s.ended
  BY <1>1, <1>2, <1>4
<1>6. CASE s = [result |-> SyscallFailure, ended |-> TRUE] /\ address + n + Word > MMAP_LENGTH
  <2>1. ASSUME NEW a \in address..(MMAP_LENGTH - Word) PROVE m[a] # 0
    <3>1. a - address + 1 \in 1..n /\ address + (a - address + 1) - 1 = a
      BY <1>1, <1>6
    <3> QED
      BY <1>4, <3>1
  <2> QED
    BY <1>3, <1>6, <2>1
<1>7. CASE /\ s = [result |-> Bytewise(m, address, n), ended |-> TRUE]
           /\ address + n < MMAP_LENGTH /\ m[address + n] = 0
  BY <1>3, <1>4, <1>7
<1>8. s = [result |-> Bytewise(m, address, n), ended |-> FALSE] => ~s.ended
  OBVIOUS
<1> QED
  BY <1>2, <1>5, <1>6, <1>7, <1>8 DEF Reading

\* Whatever is written, called and restarted, blocks of buffers and strings are read as they
\* lie in the page, or the read of a string that does not end before the page's last word fails.
THEOREM ReadsExactCorrect == Spec => []ReadsExact
<1>1. ASSUME TypeOK, BuffersApart PROVE StringsExact
  <2> SUFFICES ASSUME NEW i \in DOMAIN buffers
               PROVE  LET o == buffers[i]
                          s == ReadString(mem, o.addr)
                      IN  \/ /\ o.addr + Len(s) \in Page /\ mem[o.addr + Len(s)] = 0
                             /\ \A k \in DOMAIN s : s[k] = mem[o.addr + k - 1] /\ s[k] # 0
                          \/ s = SyscallFailure /\ \A a \in o.addr..(MMAP_LENGTH - Word) : mem[a] # 0
    BY DEF StringsExact
  <2>1. PICK addr \in Nat : addr = buffers[i].addr /\ addr < MMAP_LENGTH
    <3>1. buffers \in Seq(Buffer)
      BY <1>1 DEF TypeOK, Buffer
    <3>2. buffers[i] \in Buffer
      BY <3>1, ElementOfSeq
    <3>3. PICK addr \in Int, len \in Nat : addr = buffers[i].addr /\ len = buffers[i].len /\ len > 0
      BY <3>2, Numbers DEF Buffer
    <3>4. addr \in Span(buffers[i])
      BY <3>3 DEF Span
    <3>5. addr \in Page
      BY <1>1, <3>4 DEF BuffersApart
    <3> QED
      BY <3>3, <3>5, Numbers DEF Page
  <2>2. ASSUME NEW n \in Nat, ReadString(mem, addr) = Bytewise(mem, addr, n),
               \A k \in 1..n : mem[addr + k - 1] # 0, addr + n < MMAP_LENGTH, mem[addr + n] = 0
        PROVE  LET s == ReadString(mem, addr)
               IN  /\ addr + Len(s) \in Page /\ mem[addr + Len(s)] = 0
                   /\ \A k \in DOMAIN s : s[k] = mem[addr + k - 1] /\ s[k] # 0
    <3>1. /\ DOMAIN Bytewise(mem, addr, n) = 1..n /\ Len(Bytewise(mem, addr, n)) = n
          /\ \A k \in 1..n : Bytewise(mem, addr, n)[k] = mem[addr + k - 1]
      BY DEF Bytewise
    <3>2. addr + n \in Page
      BY <2>2, Numbers DEF Page
    <3> QED
      BY <2>2, <3>1, <3>2
  <2> QED
    BY <2>1, <2>2, ReadStringExact
<1>2. Spec => []StringsExact
  BY <1>1, DisciplineInvariant, BuffersApartCorrect, PTL DEF MemoryDiscipline
<1> QED
  BY <1>2, BlocksExactCorrect, PTL DEF ReadsExact
=============================================================================
