---------------------------- MODULE DmaPoolProofs ----------------------------
(***************************************************************************)
(* Proofs about Mpool and DmaPool for pools, cache lines, buffers, blocks  *)
(* and requests of any size.                                               *)
(*                                                                         *)
(* The invariant of Mpool is a property of pairs: a node and the next one  *)
(* have no third one between them.  Nothing is said of reachability along  *)
(* the list, so nothing has to be proved by induction on its length.       *)
(*                                                                         *)
(* That of DmaPool says where each block of memory is and, while a segment *)
(* is assembled, what the tags mean.                                       *)
(***************************************************************************)
EXTENDS DmaPool, WellFoundedInduction, TLAPS

Ends == node[head].size = 0 /\ node[tail].size = 0

IInv ==
    /\ TypeOK
    /\ ListSound
    /\ BlocksDisjoint
    /\ pool # NULL => Ends
    /\ pool = NULL => free_list = {}

-----------------------------------------------------------------------------
(* What rounding to the cache line gives. *)
LEMMA ModBound ==
    ASSUME NEW x \in Int
    PROVE  (x % LINE) \in Int /\ 0 <= x % LINE /\ x % LINE < LINE
  BY SMT, LineAssumption

LEMMA UpBound ==
    ASSUME NEW x \in Int
    PROVE  Up(x) \in Int /\ x <= Up(x) /\ Up(x) < x + LINE
  <1> DEFINE y == LINE - (x % LINE)
             z == y % LINE
  <1>1. y \in Int
    BY ModBound, LineAssumption
  <1>2. z \in Int /\ 0 <= z /\ z < LINE
    <2> HIDE DEF y
    <2> QED BY <1>1, ModBound
  <1>3. Up(x) = x + z
    BY DEF Up
  <1> HIDE DEF z
  <1> QED
    BY <1>2, <1>3, LineAssumption

LEMMA RoundUpBound ==
    ASSUME NEW size \in Int
    PROVE  RoundUp(size) \in Int /\ RoundUp(size) > 0
  BY UpBound, LineAssumption DEF RoundUp

LEMMA NodeFacts ==
    /\ head \in Nodes /\ tail \in Nodes /\ head # tail
    /\ head[1] = 0 /\ tail[1] = 0
    /\ NULL \notin Nodes
  BY NodeAssumption DEF Nodes, head, tail

-----------------------------------------------------------------------------
LEMMA InitInv == Init => IInv
  <1> SUFFICES ASSUME Init PROVE IInv
    OBVIOUS
  <1>1. Used = {}
    BY DEF Init, Used, Nodes
  <1>2. TypeOK
    BY NodeAssumption, NodeFacts DEF Init, TypeOK, Unused
  <1>3. ListSound /\ BlocksDisjoint
    BY <1>1 DEF Init, ListSound, BlocksDisjoint, Blocks
  <1> QED
    BY <1>2, <1>3, NodeFacts DEF IInv, Init

LEMMA CreateInv ==
    ASSUME IInv, NEW r, r.addr \in Nat, r.size \in Nat, r.size >= 2 * LINE, mpool_create(r)
    PROVE  /\ IInv' /\ pool' # NULL
           /\ r.addr <= node'[head].address /\ node'[tail].address <= r.addr + r.size
  <1> USE NodeFacts
  <1> DEFINE base == Up(r.addr)
             room == r.size - (base - r.addr)
             limit == base + Down(room)
  <1>1. r.addr \in Int /\ r.size \in Int /\ r.size >= 2 * LINE
    OBVIOUS
  <1>2. base \in Int /\ r.addr <= base /\ base < r.addr + LINE
    BY <1>1, UpBound
  <1>3. room \in Int /\ room > LINE
    BY <1>1, <1>2, LineAssumption
  <1>4. limit \in Int /\ base <= limit /\ limit <= r.addr + r.size
    <2>1. (room % LINE) \in Int /\ room % LINE < LINE /\ 0 <= room % LINE
      BY <1>3, ModBound
    <2>2. room = r.size - (base - r.addr)
      OBVIOUS
    <2> HIDE DEF base, room
    <2> QED BY <1>1, <1>2, <1>3, <2>1, <2>2, LineAssumption DEF Down
  <1>5. node' = [node EXCEPT
               ![head] = [address |-> base, size |-> 0, prev |-> tail, next |-> tail],
               ![tail] = [address |-> limit, size |-> 0, prev |-> head, next |-> NULL]]
    BY DEF mpool_create
  <1> HIDE DEF base, limit
  <1>6. /\ pool' = head /\ bufs' = 1 /\ free_list' = Buffer(0) \ {head, tail}
    BY DEF mpool_create
  <1>7. Used' = {head, tail}
    BY <1>6, NodeAssumption DEF Used, Buffer, Nodes, head, tail
  <1>8. /\ node'[head] = [address |-> base, size |-> 0, prev |-> tail, next |-> tail]
        /\ node'[tail] = [address |-> limit, size |-> 0, prev |-> head, next |-> NULL]
    BY <1>5 DEF IInv, TypeOK
  <1>9. TypeOK'
    <2>1. node' \in [Nodes -> [address : Int, size : Int, prev : Nodes \cup {NULL},
                              next : Nodes \cup {NULL}]]
      BY <1>2, <1>4, <1>5 DEF IInv, TypeOK
    <2> QED BY <1>6, <2>1, NodeAssumption DEF TypeOK, Buffer
  <1>10. ListSound'
    BY <1>2, <1>4, <1>7, <1>8 DEF ListSound, End
  <1>11. BlocksDisjoint'
    BY <1>7 DEF BlocksDisjoint, Blocks
  <1>12. IInv'
    BY <1>6, <1>8, <1>9, <1>10, <1>11 DEF IInv, Ends
  <1> QED
    BY <1>2, <1>4, <1>6, <1>8, <1>12

LEMMA DestroyInv == IInv /\ mpool_destroy => IInv'
  <1> SUFFICES ASSUME IInv, mpool_destroy PROVE IInv'
    OBVIOUS
  <1>1. Used' = {}
    BY DEF mpool_destroy, Used, Nodes
  <1>2. TypeOK'
    BY NodeAssumption, NodeFacts DEF mpool_destroy, TypeOK, Unused
  <1>3. ListSound' /\ BlocksDisjoint'
    BY <1>1 DEF mpool_destroy, ListSound, BlocksDisjoint, Blocks
  <1> QED
    BY <1>2, <1>3, NodeFacts DEF IInv, mpool_destroy

-----------------------------------------------------------------------------
(* The nodes before and after an insertion, one by one.                    *)
Inserted(ptr, new, next, size) ==
    /\ new \in Nodes \ Used /\ Used' = Used \cup {new} /\ new \notin {head, tail}
    /\ ptr \in Used \ {tail} /\ next \in Used \ {head, ptr}
    /\ node[ptr].next = next /\ node[next].prev = ptr
    /\ End(ptr) + size <= node[next].address
    /\ node'[new] = [address |-> End(ptr), size |-> size, prev |-> ptr, next |-> next]
    /\ node'[next] = [node[next] EXCEPT !.prev = new]
    /\ node'[ptr] = [node[ptr] EXCEPT !.next = new]
    /\ \A n \in Used \ {ptr, next} : node'[n] = node[n]

LEMMA InsertNodes ==
    ASSUME IInv, pool # NULL, NEW ptr \in Used, NEW new \in Spare, NEW size \in Int,
           FirstFit(ptr, size), node' = Insert(ptr, new, size),
           free_list' = Spare \ {new},
           bufs' = IF free_list = {} THEN bufs + 1 ELSE bufs
    PROVE  Inserted(ptr, new, node[ptr].next, size)
  <1> USE NodeFacts
  <1> DEFINE next == node[ptr].next
  <1>1. ptr # tail /\ next \in Used \ {head} /\ node[next].prev = ptr
    BY DEF FirstFit, FitsAfter, IInv, ListSound
  <1>2. next # ptr
    <2>1. CASE ptr = head
      BY <1>1, <2>1
    <2>2. CASE ptr # head
      <3>1. node[ptr].size > 0 /\ End(ptr) <= node[next].address
        BY <1>1, <2>2 DEF IInv, BlocksDisjoint, Blocks, ListSound
      <3> QED
        BY <3>1, <1>1 DEF End, IInv, TypeOK, Used
    <2> QED BY <2>1, <2>2
  <1>3. new \in Nodes \ Used /\ new \notin {head, tail}
    <2>1. CASE free_list # {} \/ bufs = BUF_MAX
      BY <2>1 DEF Spare, IInv, TypeOK, Used
    <2>2. CASE ~(free_list # {} \/ bufs = BUF_MAX)
      <3>1. new \in Buffer(bufs) /\ new[1] = bufs /\ bufs \in Nat /\ bufs > 0
        BY <2>2 DEF Spare, Buffer, IInv, TypeOK
      <3> QED BY <3>1 DEF Buffer, Used
    <2> QED BY <2>1, <2>2
  <1>4. Used' = Used \cup {new}
    <2>1. CASE free_list # {}
      BY <2>1, <1>3 DEF Spare, Used, IInv, TypeOK
    <2>2. CASE free_list = {}
      <3>1. Spare = Buffer(bufs) /\ bufs' = bufs + 1 /\ bufs \in Nat
        BY <2>2 DEF Spare, IInv, TypeOK
      <3>2. \A n \in Nodes : n[1] \in Int
        BY NodeAssumption DEF Nodes
      <3> QED BY <2>2, <3>1, <3>2 DEF Buffer, Used
    <2> QED BY <2>1, <2>2
  <1>5. End(ptr) + size <= node[next].address
    <2>1. Gap(ptr) >= size
      BY DEF FirstFit, FitsAfter
    <2> QED BY <2>1, <1>1 DEF Gap, End, IInv, TypeOK, Used
  <1>6. /\ node'[new] = [address |-> End(ptr), size |-> size, prev |-> ptr, next |-> next]
        /\ node'[next] = [node[next] EXCEPT !.prev = new]
        /\ node'[ptr] = [node[ptr] EXCEPT !.next = new]
        /\ \A n \in Used \ {ptr, next} : node'[n] = node[n]
    BY <1>1, <1>2, <1>3 DEF Insert, IInv, TypeOK, Used
  <1> QED
    BY <1>1, <1>2, <1>3, <1>4, <1>5, <1>6 DEF Inserted

LEMMA AllocInv ==
    ASSUME IInv, NEW request \in Int, mpool_alloc(request)
    PROVE  IInv'
  <1> USE NodeFacts
  <1>1. PICK ptr \in Used, new \in Spare :
          /\ FirstFit(ptr, RoundUp(request))
          /\ node' = Insert(ptr, new, RoundUp(request))
          /\ free_list' = Spare \ {new}
    BY DEF mpool_alloc
  <1> DEFINE size == RoundUp(request)
             next == node[ptr].next
  <1>2. size \in Int /\ size > 0
    BY RoundUpBound
  <1>3. /\ pool = head /\ pool' = pool
        /\ bufs' = IF free_list = {} THEN bufs + 1 ELSE bufs
    BY DEF mpool_alloc, IInv, TypeOK
  <1>4. Inserted(ptr, new, next, size)
    BY <1>1, <1>2, <1>3, InsertNodes
  <1>5. TypeOK'
    <2>1. End(ptr) \in Int /\ ptr \in Nodes /\ next \in Nodes /\ new \in Nodes
      BY <1>4 DEF Inserted, End, IInv, TypeOK, Used
    <2>2. node' \in [Nodes -> [address : Int, size : Int, prev : Nodes \cup {NULL},
                              next : Nodes \cup {NULL}]]
      BY <1>1, <1>2, <2>1 DEF Insert, IInv, TypeOK
    <2>3. CASE free_list # {}
      BY <1>1, <1>3, <2>2, <2>3 DEF Spare, IInv, TypeOK
    <2>4. CASE free_list = {}
      <3>1. new \in Buffer(bufs) /\ bufs # BUF_MAX
        BY <2>4 DEF Spare
      <3>2. bufs' \in 0 .. BUF_MAX /\ bufs' = bufs + 1 /\ bufs \in Nat /\ bufs > 0
        BY <1>3, <2>4, <3>1, NodeAssumption DEF IInv, TypeOK
      <3>3. free_list' \subseteq {n \in Nodes : n[1] < bufs'} \ {head, tail}
        BY <1>1, <2>4, <3>1, <3>2 DEF Spare, Buffer
      <3> QED BY <1>3, <2>2, <3>2, <3>3 DEF TypeOK
    <2> QED BY <2>3, <2>4
  <1> HIDE DEF size, next
  <1> DEFINE A(n) == node[n].address
             S(n) == node[n].size
             A1(n) == node'[n].address
             S1(n) == node'[n].size
             N(n) == node[n].next
             P(n) == node[n].prev
             N1(n) == node'[n].next
             P1(n) == node'[n].prev
  <1>6. \A n \in Used : /\ A(n) \in Int /\ S(n) \in Int /\ A1(n) = A(n) /\ S1(n) = S(n)
                         /\ S(n) >= 0 /\ (S(n) = 0 => n \in {head, tail})
    <2> TAKE n \in Used
    <2>1. A(n) \in Int /\ S(n) \in Int /\ A1(n) = A(n) /\ S1(n) = S(n)
      BY <1>4 DEF Inserted, IInv, TypeOK, Used
    <2>2. CASE n \in {head, tail}
      BY <1>3, <2>1, <2>2 DEF IInv, Ends
    <2>3. CASE n \notin {head, tail}
      BY <2>1, <2>3 DEF IInv, BlocksDisjoint, Blocks
    <2> QED BY <2>1, <2>2, <2>3
  <1>7. /\ \A n \in Used : N1(n) = IF n = ptr THEN new ELSE N(n)
        /\ \A n \in Used : P1(n) = IF n = next THEN new ELSE P(n)
        /\ N1(new) = next /\ P1(new) = ptr /\ A1(new) = A(ptr) + S(ptr) /\ S1(new) = size
    BY <1>4 DEF Inserted, IInv, TypeOK, Used, End
  <1>8. /\ Used' = Used \cup {new} /\ new \notin Used /\ new \notin {head, tail}
        /\ ptr \in Used \ {tail} /\ next \in Used \ {head, ptr}
        /\ N(ptr) = next /\ P(next) = ptr
        /\ A(ptr) + S(ptr) + size <= A(next)
    BY <1>4 DEF Inserted, End
  <1>9. /\ {head, tail} \subseteq Used
        /\ N(tail) = NULL /\ P(head) = tail
        /\ \A n \in Used \ {tail} : N(n) \in Used \ {head} /\ P(N(n)) = n
        /\ \A n \in Used \ {head} : P(n) \in Used \ {tail} /\ N(P(n)) = n
        /\ \A n \in Used \ {tail} :
              /\ A(n) + S(n) <= A(N(n))
              /\ \A m \in Used \ {n, N(n)} :
                    A(m) + S(m) <= A(n) \/ A(N(n)) + S(N(n)) <= A(m)
    BY <1>3 DEF IInv, ListSound, End
  <1> HIDE DEF A, S, A1, S1, N, P, N1, P1
  <1>10. /\ N1(tail) = NULL /\ P1(head) = tail
         /\ \A n \in Used' \ {tail} : N1(n) \in Used' \ {head} /\ P1(N1(n)) = n
         /\ \A n \in Used' \ {head} : P1(n) \in Used' \ {tail} /\ N1(P1(n)) = n
    BY <1>7, <1>8, <1>9
  <1>11. ASSUME NEW n \in Used' \ {tail}
         PROVE  /\ A1(n) + S1(n) <= A1(N1(n))
                /\ \A m \in Used' \ {n, N1(n)} :
                      A1(m) + S1(m) <= A1(n) \/ A1(N1(n)) + S1(N1(n)) <= A1(m)
    <2>1. CASE n = new
      BY <1>2, <1>6, <1>7, <1>8, <1>9, <2>1
    <2>2. CASE n = ptr
      BY <1>2, <1>6, <1>7, <1>8, <1>9, <2>2
    <2>3. CASE n \notin {new, ptr}
      <3>1. n \in Used /\ N1(n) = N(n) /\ N(n) \in Used \ {next}
        BY <1>7, <1>8, <1>9, <2>3
      <3>2. A1(new) + S1(new) <= A1(n) \/ A1(N(n)) + S1(N(n)) <= A1(new)
        <4>1. CASE n = next
          BY <4>1, <1>2, <1>6, <1>7, <1>8
        <4>2. CASE n # next /\ A(next) + S(next) <= A(n)
          BY <4>2, <3>1, <1>2, <1>6, <1>7, <1>8
        <4>3. CASE n # next /\ A(n) + S(n) <= A(ptr) /\ N(n) = ptr
          BY <4>3, <3>1, <1>6, <1>7, <1>8
        <4>4. CASE n # next /\ A(n) + S(n) <= A(ptr) /\ N(n) # ptr
          <5>1. A(ptr) + S(ptr) <= A(n) \/ A(N(n)) + S(N(n)) <= A(ptr)
            BY <4>4, <3>1, <2>3, <1>8, <1>9
          <5>2. S(n) > 0 \/ S(ptr) > 0
            BY <1>6, <1>8, <2>3, <3>1
          <5> QED BY <5>1, <5>2, <4>4, <3>1, <1>6, <1>7, <1>8
        <4> QED BY <4>1, <4>2, <4>3, <4>4, <3>1, <2>3, <1>8, <1>9
      <3> QED BY <3>1, <3>2, <2>3, <1>6, <1>8, <1>9
    <2> QED BY <2>1, <2>2, <2>3
  <1>12. ListSound'
    BY <1>3, <1>8, <1>9, <1>10, <1>11 DEF ListSound, End, A1, S1, N1, P1
  <1>13. BlocksDisjoint'
    <2>1. /\ \A n \in Blocks : /\ S(n) > 0 /\ A(head) <= A(n) /\ A(n) + S(n) <= A(tail)
          /\ \A m, n \in Blocks : m # n => A(m) + S(m) <= A(n) \/ A(n) + S(n) <= A(m)
      BY DEF IInv, BlocksDisjoint, End, A, S
    <2>2. Blocks' = Blocks \cup {new} /\ Blocks = Used \ {head, tail}
      BY <1>8 DEF Blocks
    <2>3. A1(head) = A(head) /\ A1(tail) = A(tail) /\ S(head) = 0 /\ S(tail) = 0
      BY <1>6, <1>9, <1>3 DEF IInv, Ends, S
    <2>4. A(head) <= A1(new) /\ A1(new) + S1(new) <= A(tail) /\ S1(new) > 0
      <3>1. A(head) <= A(ptr)
        BY <2>1, <2>2, <1>6, <1>8, <1>9
      <3>2. A(next) <= A(tail)
        <4>1. CASE next = tail
          BY <4>1, <1>6, <1>8
        <4>2. CASE next # tail
          <5>1. next \in Blocks
            BY <2>2, <4>2, <1>8
          <5> QED BY <5>1, <2>1, <1>6, <1>8, <1>9
        <4> QED BY <4>1, <4>2
      <3> QED BY <3>1, <3>2, <1>2, <1>6, <1>7, <1>8, <1>9
    <2>5. \A n \in Blocks : A1(new) + S1(new) <= A(n) \/ A(n) + S(n) <= A1(new)
      BY <2>2, <1>2, <1>6, <1>7, <1>8, <1>9
    <2>6. \A n \in Blocks' : /\ S1(n) > 0 /\ A1(head) <= A1(n) /\ A1(n) + S1(n) <= A1(tail)
      BY <2>1, <2>2, <2>3, <2>4, <1>6
    <2>7. \A m, n \in Blocks' : m # n => A1(m) + S1(m) <= A1(n) \/ A1(n) + S1(n) <= A1(m)
      BY <2>1, <2>2, <2>4, <2>5, <1>6
    <2> QED BY <2>6, <2>7 DEF BlocksDisjoint, End, A1, S1
  <1>14. Ends'
    BY <1>3, <1>6, <1>9 DEF IInv, Ends, S, S1
  <1> QED
    BY <1>3, <1>5, <1>12, <1>13, <1>14 DEF IInv

-----------------------------------------------------------------------------
(* The nodes before and after a removal.                                   *)
LEMMA UnlinkNodes ==
    ASSUME IInv, pool = head, NEW x \in Blocks, node' = Unlink(x),
           free_list' = free_list \cup {x}, UNCHANGED <<pool, bufs>>
    PROVE  LET prev == node[x].prev
               next == node[x].next
           IN  /\ Used' = Used \ {x} /\ x \in Used \ {head, tail}
               /\ prev \in Used \ {tail, x, next} /\ next \in Used \ {head, x}
               /\ node[prev].next = x /\ node[next].prev = x
               /\ node'[prev] = [node[prev] EXCEPT !.next = next]
               /\ node'[next] = [node[next] EXCEPT !.prev = prev]
               /\ \A n \in Used \ {x, prev, next} : node'[n] = node[n]
               /\ TypeOK'
  <1> USE NodeFacts
  <1> DEFINE prev == node[x].prev
             next == node[x].next
  <1>1. x \in Used \ {head, tail} /\ Used' = Used \ {x}
    BY DEF Blocks, Used
  <1>2. /\ prev \in Used \ {tail} /\ node[prev].next = x
        /\ next \in Used \ {head} /\ node[next].prev = x
    BY <1>1 DEF IInv, ListSound
  <1>3. /\ End(prev) <= node[x].address /\ End(x) <= node[next].address
        /\ node[x].size > 0
    BY <1>1, <1>2 DEF IInv, ListSound, BlocksDisjoint
  <1>4. prev # x /\ next # x /\ prev # next
    <2>1. /\ node[x].address \in Int /\ node[x].size \in Int
          /\ node[prev].address \in Int /\ node[prev].size \in Int
          /\ node[next].address \in Int /\ node[next].size \in Int
      BY <1>1, <1>2 DEF IInv, TypeOK, Used
    <2>2. node[prev].size >= 0
      <3>1. CASE prev = head
        BY <3>1 DEF IInv, Ends
      <3>2. CASE prev # head
        BY <3>2, <1>2, <2>1 DEF IInv, BlocksDisjoint, Blocks
      <3> QED BY <3>1, <3>2
    <2> QED BY <1>3, <2>1, <2>2 DEF End
  <1>5. /\ node'[prev] = [node[prev] EXCEPT !.next = next]
        /\ node'[next] = [node[next] EXCEPT !.prev = prev]
        /\ \A n \in Used \ {x, prev, next} : node'[n] = node[n]
    BY <1>1, <1>2, <1>4 DEF Unlink, IInv, TypeOK, Used
  <1>6. TypeOK'
    <2>1. node' \in [Nodes -> [address : Int, size : Int, prev : Nodes \cup {NULL},
                              next : Nodes \cup {NULL}]]
      BY <1>1, <1>2 DEF Unlink, Unused, IInv, TypeOK, Used
    <2> QED BY <2>1, <1>1 DEF IInv, TypeOK, Used
  <1> QED
    BY <1>1, <1>2, <1>4, <1>5, <1>6

LEMMA FreeInv ==
    ASSUME IInv, NEW addr, mpool_free(addr)
    PROVE  IInv'
  <1> USE NodeFacts
  <1>1. PICK x \in Blocks : node' = Unlink(x) /\ free_list' = free_list \cup {x}
    BY DEF mpool_free
  <1>2. pool = head /\ UNCHANGED <<pool, bufs>>
    BY DEF mpool_free, IInv, TypeOK
  <1> DEFINE prev == node[x].prev
             next == node[x].next
  <1>3. /\ Used' = Used \ {x} /\ x \in Used \ {head, tail}
        /\ prev \in Used \ {tail, x, next} /\ next \in Used \ {head, x}
        /\ node[prev].next = x /\ node[next].prev = x
        /\ node'[prev] = [node[prev] EXCEPT !.next = next]
        /\ node'[next] = [node[next] EXCEPT !.prev = prev]
        /\ \A n \in Used \ {x, prev, next} : node'[n] = node[n]
        /\ TypeOK'
    BY <1>1, <1>2, UnlinkNodes
  <1> DEFINE A(n) == node[n].address
             S(n) == node[n].size
             A1(n) == node'[n].address
             S1(n) == node'[n].size
             N(n) == node[n].next
             P(n) == node[n].prev
             N1(n) == node'[n].next
             P1(n) == node'[n].prev
  <1>4. /\ \A n \in Used : A(n) \in Int /\ S(n) \in Int
        /\ \A n \in Used \ {x} : A1(n) = A(n) /\ S1(n) = S(n)
        /\ S(x) > 0
    BY <1>3 DEF IInv, TypeOK, Used, BlocksDisjoint
  <1>5. /\ \A n \in Used \ {x} : N1(n) = IF n = prev THEN next ELSE N(n)
        /\ \A n \in Used \ {x} : P1(n) = IF n = next THEN prev ELSE P(n)
        /\ N(prev) = x /\ P(next) = x /\ N(x) = next /\ P(x) = prev
    BY <1>3 DEF IInv, TypeOK, Used
  <1>6. /\ {head, tail} \subseteq Used
        /\ N(tail) = NULL /\ P(head) = tail
        /\ \A n \in Used \ {tail} : N(n) \in Used \ {head} /\ P(N(n)) = n
        /\ \A n \in Used \ {head} : P(n) \in Used \ {tail} /\ N(P(n)) = n
        /\ \A n \in Used \ {tail} :
              /\ A(n) + S(n) <= A(N(n))
              /\ \A m \in Used \ {n, N(n)} :
                    A(m) + S(m) <= A(n) \/ A(N(n)) + S(N(n)) <= A(m)
    BY <1>2 DEF IInv, ListSound, End
  <1> HIDE DEF A, S, A1, S1, N, P, N1, P1, prev, next
  <1>7. /\ N1(tail) = NULL /\ P1(head) = tail
        /\ \A n \in Used' \ {tail} : N1(n) \in Used' \ {head} /\ P1(N1(n)) = n
        /\ \A n \in Used' \ {head} : P1(n) \in Used' \ {tail} /\ N1(P1(n)) = n
    BY <1>3, <1>5, <1>6
  <1>8. ASSUME NEW n \in Used' \ {tail}
        PROVE  /\ A1(n) + S1(n) <= A1(N1(n))
               /\ \A m \in Used' \ {n, N1(n)} :
                     A1(m) + S1(m) <= A1(n) \/ A1(N1(n)) + S1(N1(n)) <= A1(m)
    <2>1. CASE n = prev
      <3>1. n \in Used \ {tail, x, next} /\ N(n) = x /\ N1(n) = next /\ N(x) = next
        BY <1>3, <1>5, <2>1
      <3>2. A(n) + S(n) <= A(x) /\ A(x) + S(x) <= A(next)
        BY <3>1, <1>3, <1>6
      <3>3. \A m \in Used \ {n, x, next} : A(m) + S(m) <= A(n) \/ A(next) + S(next) <= A(m)
        <4> TAKE m \in Used \ {n, x, next}
        <4>1. A(m) + S(m) <= A(n) \/ A(x) + S(x) <= A(m)
          BY <3>1, <1>6
        <4>2. A(m) + S(m) <= A(x) \/ A(next) + S(next) <= A(m)
          BY <3>1, <1>3, <1>6
        <4>3. ~(A(x) + S(x) <= A(m) /\ A(m) + S(m) <= A(x))
          <5>1. S(m) >= 0
            <6>1. CASE m \in {head, tail}
              BY <6>1, <1>2 DEF IInv, Ends, S
            <6>2. CASE m \notin {head, tail}
              BY <6>2, <1>4 DEF IInv, BlocksDisjoint, Blocks, S
            <6> QED BY <6>1, <6>2
          <5> QED BY <5>1, <1>3, <1>4
        <4> QED BY <4>1, <4>2, <4>3
      <3> QED BY <3>1, <3>2, <3>3, <1>3, <1>4
    <2>2. CASE n # prev
      <3>1. n \in Used \ {x, tail} /\ N1(n) = N(n) /\ N(n) \in Used \ {x}
        BY <1>3, <1>5, <1>6, <2>2
      <3> QED BY <3>1, <1>3, <1>4, <1>6
    <2> QED BY <2>1, <2>2
  <1>9. ListSound'
    BY <1>2, <1>3, <1>6, <1>7, <1>8 DEF ListSound, End, A1, S1, N1, P1
  <1>10. BlocksDisjoint'
    <2>1. Blocks' = Blocks \ {x} /\ Blocks = Used \ {head, tail}
      BY <1>3 DEF Blocks
    <2>2. \A n \in Used \ {x} : A1(n) = A(n) /\ S1(n) = S(n)
      BY <1>4
    <2> QED BY <2>1, <2>2, <1>3, <1>6 DEF IInv, BlocksDisjoint, End, A, S, A1, S1
  <1>11. Ends'
    BY <1>2, <1>3, <1>4, <1>6 DEF IInv, Ends, S, S1
  <1> QED
    BY <1>2, <1>3, <1>9, <1>10, <1>11 DEF IInv

-----------------------------------------------------------------------------
(* An allocation or a free leaves the pool where it is.                    *)
SamePool ==
    /\ pool' = pool
    /\ node'[head].address = node[head].address
    /\ node'[tail].address = node[tail].address

LEMMA AllocSamePool ==
    ASSUME IInv, NEW request \in Int, mpool_alloc(request)
    PROVE  SamePool
  <1>1. PICK ptr \in Used, new \in Spare :
          /\ FirstFit(ptr, RoundUp(request))
          /\ node' = Insert(ptr, new, RoundUp(request))
          /\ free_list' = Spare \ {new}
    BY DEF mpool_alloc
  <1>2. /\ pool # NULL /\ pool' = pool
        /\ bufs' = IF free_list = {} THEN bufs + 1 ELSE bufs
        /\ RoundUp(request) \in Int
    BY RoundUpBound DEF mpool_alloc
  <1>3. Inserted(ptr, new, node[ptr].next, RoundUp(request))
    BY <1>1, <1>2, InsertNodes
  <1>4. {head, tail} \subseteq Used
    BY <1>2 DEF IInv, ListSound
  <1>5. \A n \in Used : node'[n].address = node[n].address
    BY <1>3 DEF Inserted, IInv, TypeOK, Used
  <1> QED
    BY <1>2, <1>4, <1>5 DEF SamePool

LEMMA FreeSamePool ==
    ASSUME IInv, NEW addr, mpool_free(addr)
    PROVE  SamePool
  <1>1. PICK x \in Blocks : node' = Unlink(x) /\ free_list' = free_list \cup {x}
    BY DEF mpool_free
  <1>2. pool = head /\ UNCHANGED <<pool, bufs>>
    BY DEF mpool_free, IInv, TypeOK
  <1> DEFINE prev == node[x].prev
             next == node[x].next
  <1>3. /\ x \in Used \ {head, tail} /\ prev \in Used /\ next \in Used
        /\ node'[prev] = [node[prev] EXCEPT !.next = next]
        /\ node'[next] = [node[next] EXCEPT !.prev = prev]
        /\ \A n \in Used \ {x, prev, next} : node'[n] = node[n]
    BY <1>1, <1>2, UnlinkNodes
  <1>4. {head, tail} \subseteq Used
    BY <1>2, NodeFacts DEF IInv, ListSound
  <1> HIDE DEF prev, next
  <1>5. \A n \in Used \ {x} : node'[n].address = node[n].address
    BY <1>3 DEF IInv, TypeOK, Used
  <1> QED
    BY <1>2, <1>3, <1>4, <1>5 DEF SamePool

LEMMA StutterInv == IInv /\ UNCHANGED vars => IInv'
  BY DEF vars, IInv, TypeOK, ListSound, BlocksDisjoint, Ends, Used, Blocks, End

LEMMA Invariance == Spec => []IInv
  <1>1. IInv /\ [Next]_vars => IInv'
    BY SizeAssumption, CreateInv, AllocInv, FreeInv, DestroyInv, StutterInv DEF Next
  <1> QED
    BY InitInv, <1>1, PTL DEF Spec

(* The variables keep their types: no node but those of an allocated       *)
(* buffer is used, and head and tail are never on the free list.           *)
THEOREM MpoolTypeCorrect == Spec => []TypeOK
  BY Invariance, PTL DEF IInv

(* Blocks of DMA memory lie in the pool and never overlap (mpool_alloc,    *)
(* mpool_free), whatever the sizes and the order of the calls.             *)
THEOREM MpoolBlocksDisjoint == Spec => []BlocksDisjoint
  BY Invariance, PTL DEF IInv

(* The list of nodes stays doubly linked and in the order of the           *)
(* addresses.                                                              *)
THEOREM MpoolListSound == Spec => []ListSound
  BY Invariance, PTL DEF IInv

-----------------------------------------------------------------------------
(* The first gap. *)
LEMMA LeastElement ==
    ASSUME NEW S, S # {}, NEW f \in [S -> Nat]
    PROVE  \E x \in S : \A y \in S : f[x] <= f[y]
  <1> DEFINE T == {f[x] : x \in S}
  <1>1. T \subseteq Nat /\ T # {}
    OBVIOUS
  <1>2. \E k \in T : \A l \in T : ~(<<l, k>> \in OpToRel(<, Nat))
    <2> HIDE DEF T
    <2> QED
      BY <1>1, NatLessThanWellFounded, WFMin, Zenon
  <1>3. \E k \in T : \A l \in T : ~(l < k)
    BY <1>1, <1>2 DEF OpToRel
  <1>4. \E k \in T : \A l \in T : k <= l
    <2> HIDE DEF T
    <2> QED BY <1>1, <1>3
  <1> QED
    BY <1>4

(* What the invariant says of the nodes in use: the head is before all of  *)
(* them, and a block is at least one byte long.                            *)
LEMMA UsedNodes ==
    ASSUME IInv, pool # NULL
    PROVE  /\ head \in Used /\ tail \in Used /\ head # tail
           /\ End(head) = node[head].address /\ End(tail) = node[tail].address
           /\ \A n \in Used :
                 /\ node[n].address \in Int /\ node[n].size \in Int /\ End(n) \in Int
                 /\ node[head].address <= End(n)
                 /\ n \in Blocks \/ n = head \/ n = tail
                 /\ n \in Blocks => node[n].address < End(n)
                 /\ n # tail => node[n].next \in Used \ {head}
                 /\ n # tail => End(n) <= node[node[n].next].address
                 /\ n # tail => node[n].next # NULL
  <1> USE NodeFacts
  <1>1. TypeOK /\ ListSound /\ BlocksDisjoint /\ Ends
    BY DEF IInv
  <1>2. head \in Used /\ tail \in Used /\ node[tail].next = NULL
    BY <1>1 DEF ListSound
  <1>3. \A n \in Used : n \in Nodes /\ node[n].address \in Int /\ node[n].size \in Int
    BY <1>1 DEF Used, TypeOK
  <1>4. \A n \in Used : End(n) = node[n].address + node[n].size /\ End(n) \in Int
    BY <1>3 DEF End
  <1>5. End(head) = node[head].address /\ End(tail) = node[tail].address
    BY <1>1, <1>2, <1>3 DEF Ends, End
  <1>6. \A n \in Used \ {tail} : /\ node[n].next \in Used \ {head} /\ node[n].next # NULL
                                 /\ End(n) <= node[node[n].next].address
    BY <1>1, <1>3 DEF ListSound
  <1>7. \A n \in Used : n \in Blocks \/ n = head \/ n = tail
    BY DEF Blocks
  <1>8. \A n \in Blocks : /\ n \in Used /\ node[n].size > 0
                          /\ node[head].address <= node[n].address
    BY <1>1 DEF BlocksDisjoint, Blocks
  <1>9. node[head].address <= node[tail].address
    <2>1. tail # head /\ node[head].next \in Used \ {head}
      BY <1>2, <1>6
    <2>2. ASSUME node[head].next \in Blocks
          PROVE  node[head].address <= node[tail].address
      <3>1. End(node[head].next) <= node[tail].address
        BY <1>1, <2>2 DEF BlocksDisjoint
      <3> QED
        BY <1>2, <1>3, <1>4, <1>8, <2>2, <3>1
    <2>3. ASSUME node[head].next = tail
          PROVE  node[head].address <= node[tail].address
      BY <1>2, <1>5, <1>6, <2>3
    <2> QED
      BY <1>7, <2>1, <2>2, <2>3
  <1>10. \A n \in Used : node[head].address <= End(n)
    BY <1>2, <1>3, <1>4, <1>5, <1>7, <1>8, <1>9
  <1>11. \A n \in Blocks : node[n].address < End(n)
    BY <1>3, <1>4, <1>8
  <1> QED
    BY <1>2, <1>3, <1>4, <1>5, <1>6, <1>7, <1>10, <1>11

(* Where something fits there is a first place.                            *)
LEMMA FirstFits ==
    ASSUME IInv, pool # NULL, NEW size, NEW n \in Used, FitsAfter(n, size)
    PROVE  \E m \in Used : FirstFit(m, size)
  <1> DEFINE S == {m \in Used : FitsAfter(m, size)}
             f == [m \in S |-> End(m) - node[head].address]
  <1>1. \A m \in S : End(m) - node[head].address \in Nat
    BY UsedNodes
  <1>2. S # {} /\ f \in [S -> Nat]
    BY <1>1
  <1>3. PICK m \in S : \A k \in S : f[m] <= f[k]
    <2> HIDE DEF S, f
    <2> QED BY <1>2, LeastElement
  <1>4. \A k \in S : End(m) <= End(k)
    <2>1. \A k \in S : End(m) - node[head].address <= End(k) - node[head].address
      BY <1>3
    <2> QED
      BY <2>1, UsedNodes
  <1> QED
    BY <1>4 DEF FirstFit

(* A place that no block overlaps begins behind one node and ends before   *)
(* the next: something fits after the last node that ends before it.       *)
LEMMA GapFound ==
    ASSUME IInv, pool # NULL, NEW size \in Int, size > 0,
           NEW a \in node[head].address .. node[tail].address - size,
           \A n \in Blocks : ~(a < End(n) /\ node[n].address < a + size)
    PROVE  \E n \in Used : FitsAfter(n, size)
  <1> DEFINE S == {n \in Used : End(n) <= a}
             f == [n \in S |-> a - End(n)]
  <1>0. head \in Used /\ tail \in Used /\ node[head].address \in Int /\ node[tail].address \in Int
    BY UsedNodes
  <1>1. a \in Int /\ node[head].address <= a /\ a + size <= node[tail].address
    BY <1>0
  <1>2. head \in S /\ tail \notin S
    BY <1>0, <1>1, UsedNodes
  <1>3. \A n \in S : a - End(n) \in Nat
    BY <1>1, UsedNodes
  <1>4. f \in [S -> Nat]
    BY <1>3
  <1>5. PICK n \in S : \A k \in S : f[n] <= f[k]
    <2> HIDE DEF S, f
    <2> QED BY <1>2, <1>4, LeastElement
  <1>6. \A k \in S : End(k) <= End(n)
    <2>1. \A k \in S : a - End(n) <= a - End(k)
      BY <1>5
    <2> QED
      BY <1>1, <2>1, UsedNodes
  <1> DEFINE next == node[n].next
  <1>7. n \in Used /\ n # tail /\ End(n) <= a /\ End(n) \in Int
    BY <1>2, UsedNodes
  <1>8. next \in Used /\ next # head /\ next # NULL /\ End(n) <= node[next].address
        /\ node[next].address \in Int
    BY <1>7, UsedNodes
  <1>9. a + size <= node[next].address
    <2>1. CASE next = tail
      BY <1>1, <2>1
    <2>2. CASE next \in Blocks
      <3>1. node[next].address < End(next) /\ End(next) \in Int
        BY <1>8, <2>2, UsedNodes
      <3>2. next \notin S
        BY <1>6, <1>7, <1>8, <3>1
      <3>3. a < End(next)
        BY <1>1, <1>8, <3>1, <3>2
      <3> QED
        BY <1>1, <1>8, <2>2, <3>3
    <2> QED
      BY <1>8, <2>1, <2>2, UsedNodes
  <1>10. Gap(n) >= size
    BY <1>1, <1>7, <1>8, <1>9 DEF Gap
  <1> QED
    BY <1>7, <1>8, <1>10 DEF FitsAfter

LEMMA GapsFound == IInv => FindsGap
  <1> SUFFICES ASSUME IInv, pool # NULL, NEW size \in Sizes,
                      ~\E n \in Used : FirstFit(n, RoundUp(size)),
                      NEW a \in node[head].address .. node[tail].address - RoundUp(size)
               PROVE  \E n \in Blocks : a < End(n) /\ node[n].address < a + RoundUp(size)
    BY DEF FindsGap
  <1>1. RoundUp(size) \in Int /\ RoundUp(size) > 0
    BY RoundUpBound, SizeAssumption
  <1>2. ~\E n \in Used : FitsAfter(n, RoundUp(size))
    BY FirstFits
  <1> QED
    BY <1>1, <1>2, GapFound

(* mpool_alloc finds a gap if there is any: when no node fits, the size    *)
(* fits nowhere in the pool, at whatever address.                          *)
THEOREM MpoolFindsGap == Spec => []FindsGap
  BY Invariance, GapsFound, PTL

-----------------------------------------------------------------------------
(* Refinement. *)
Block(n) == [addr |-> node[n].address, size |-> node[n].size]
AbsBlocks == {Block(n) : n \in Blocks}
AbsRange == IF pool = NULL THEN [base |-> 0, limit |-> 0]
            ELSE [base |-> node[head].address, limit |-> node[tail].address]

LEMMA CreateImplements ==
    ASSUME IInv, IInv', NEW r, mpool_create(r)
    PROVE  Abstract!Create
  <1> USE NodeFacts
  <1>1. Used' = {head, tail}
    BY NodeAssumption DEF mpool_create, Used, Buffer, Nodes, head, tail
  <1>2. Blocks' = {}
    BY <1>1 DEF Blocks
  <1>3. pool = NULL /\ pool' = head
    BY DEF mpool_create
  <1>4. node'[head].address \in Int /\ node'[tail].address \in Int
    BY DEF IInv, TypeOK
  <1> QED
    BY <1>2, <1>3, <1>4 DEF Abstract!Create, Abstract!NoPool

LEMMA AllocImplements ==
    ASSUME IInv, IInv', NEW request \in Int, mpool_alloc(request)
    PROVE  Abstract!Alloc
  <1> USE NodeFacts
  <1>1. PICK ptr \in Used, new \in Spare :
          /\ FirstFit(ptr, RoundUp(request))
          /\ node' = Insert(ptr, new, RoundUp(request))
          /\ free_list' = Spare \ {new}
    BY DEF mpool_alloc
  <1>2. /\ pool = head /\ pool' = head
        /\ bufs' = IF free_list = {} THEN bufs + 1 ELSE bufs
        /\ RoundUp(request) \in Int
    BY RoundUpBound DEF mpool_alloc, IInv, TypeOK
  <1>3. Inserted(ptr, new, node[ptr].next, RoundUp(request))
    BY <1>1, <1>2, InsertNodes
  <1>4. /\ Blocks' = Blocks \cup {new} /\ new \notin Blocks
        /\ {head, tail} \subseteq Used
    BY <1>2, <1>3 DEF Inserted, Blocks, IInv, ListSound
  <1>5. \A n \in Used : node'[n].address = node[n].address /\ node'[n].size = node[n].size
    BY <1>3 DEF Inserted, IInv, TypeOK, Used
  <1>6. AbsBlocks' = AbsBlocks \cup {Block(new)'}
    BY <1>4, <1>5 DEF AbsBlocks, Block, Blocks
  <1>7. UNCHANGED AbsRange
    BY <1>2, <1>4, <1>5 DEF AbsRange
  <1>8. /\ node'[new].size > 0
        /\ node[head].address <= node'[new].address
        /\ End(new)' <= node[tail].address
        /\ \A n \in Blocks : End(new)' <= node[n].address \/ End(n) <= node'[new].address
    <2>1. BlocksDisjoint'
      BY DEF IInv
    <2> QED BY <2>1, <1>4, <1>5 DEF BlocksDisjoint, End, Blocks
  <1>9. /\ Abstract!InRange(Block(new)')
        /\ \A c \in AbsBlocks : Abstract!Disjoint(Block(new)', c)
    BY <1>2, <1>8 DEF Abstract!InRange, Abstract!Disjoint, AbsBlocks, Block, End
  <1>10. Block(new)'.size > 0
    BY <1>8 DEF Block
  <1> QED
    BY <1>6, <1>7, <1>9, <1>10 DEF Abstract!Alloc, AbsBlocks, AbsRange, Block

LEMMA FreeImplements ==
    ASSUME IInv, NEW addr, mpool_free(addr)
    PROVE  Abstract!Free
  <1> USE NodeFacts
  <1>1. PICK x \in Blocks : node' = Unlink(x) /\ free_list' = free_list \cup {x}
    BY DEF mpool_free
  <1>2. pool = head /\ UNCHANGED <<pool, bufs>>
    BY DEF mpool_free, IInv, TypeOK
  <1>3. /\ Blocks' = Blocks \ {x} /\ {head, tail} \subseteq Used \ {x}
        /\ \A n \in Used \ {x} : node'[n].address = node[n].address
                                 /\ node'[n].size = node[n].size
    <2> DEFINE prev == node[x].prev
               next == node[x].next
    <2>1. /\ Used' = Used \ {x} /\ x \in Used \ {head, tail}
          /\ prev \in Used /\ next \in Used
          /\ node'[prev] = [node[prev] EXCEPT !.next = next]
          /\ node'[next] = [node[next] EXCEPT !.prev = prev]
          /\ \A n \in Used \ {x, prev, next} : node'[n] = node[n]
      BY <1>1, <1>2, UnlinkNodes
    <2> HIDE DEF prev, next
    <2>2. {head, tail} \subseteq Used
      BY <1>2 DEF IInv, ListSound
    <2>3. \A n \in Used \ {x} : node'[n].address = node[n].address
                              /\ node'[n].size = node[n].size
      BY <2>1 DEF IInv, TypeOK, Used
    <2> QED BY <2>1, <2>2, <2>3 DEF Blocks
  <1>4. \A n \in Blocks \ {x} : Block(n) # Block(x)
    BY DEF IInv, BlocksDisjoint, TypeOK, End, Block, Blocks, Used
  <1>5. AbsBlocks' = AbsBlocks \ {Block(x)}
    <2>1. AbsBlocks' = {Block(n) : n \in Blocks \ {x}}
      BY <1>3 DEF AbsBlocks, Block, Blocks
    <2> QED BY <2>1, <1>4 DEF AbsBlocks
  <1>6. UNCHANGED AbsRange
    BY <1>2, <1>3 DEF AbsRange
  <1> QED
    BY <1>5, <1>6 DEF Abstract!Free, AbsBlocks, AbsRange, Block

LEMMA DestroyImplements == mpool_destroy => Abstract!Next
  <1> SUFFICES ASSUME mpool_destroy PROVE Abstract!Next
    OBVIOUS
  <1>1. pool' = NULL /\ Blocks' = {}
    BY DEF mpool_destroy, Blocks, Used, Nodes
  <1> QED
    BY <1>1 DEF Abstract!Next, Abstract!Destroy, Abstract!NoPool

LEMMA StutterImplements == UNCHANGED vars => UNCHANGED Abstract!vars
  BY DEF vars, Abstract!vars, Blocks, Used

(* The allocator implements a pool of memory: a call takes or gives back   *)
(* one block and leaves all the others as they are.                        *)
THEOREM MpoolImplementsPool == Spec => ImplementsPool
  <1>1. Init => Abstract!Init
    BY DEF Init, Blocks, Used, Nodes, Abstract!Init, Abstract!NoPool
  <1>2. IInv /\ IInv' /\ [Next]_vars => [Abstract!Next]_Abstract!vars
    <2> SUFFICES ASSUME IInv, IInv', [Next]_vars PROVE [Abstract!Next]_Abstract!vars
      OBVIOUS
    <2>1. CASE \E r \in Ranges : mpool_create(r)
      BY <2>1, CreateImplements DEF Abstract!Next
    <2>2. CASE \E size \in Sizes : mpool_alloc(size)
      BY <2>2, SizeAssumption, AllocImplements DEF Abstract!Next
    <2>3. CASE \E n \in Blocks : mpool_free(node[n].address)
      BY <2>3, FreeImplements DEF Abstract!Next
    <2>4. CASE mpool_destroy
      BY <2>4, DestroyImplements
    <2>5. CASE UNCHANGED vars
      BY <2>5, StutterImplements
    <2> QED
      BY <2>1, <2>2, <2>3, <2>4, <2>5 DEF Next
  <1> QED
    BY <1>1, <1>2, Invariance, PTL DEF Spec, ImplementsPool, Abstract!Spec

-----------------------------------------------------------------------------
(* Addresses of blocks are multiples of the block size.                    *)
LEMMA Quotient ==
    ASSUME NEW x \in Int, x % DMA_BLOCK_SIZE = 0
    PROVE  \E q \in Int : x = DMA_BLOCK_SIZE * q
  <1>1. x \div DMA_BLOCK_SIZE \in Int /\ x = DMA_BLOCK_SIZE * (x \div DMA_BLOCK_SIZE)
    BY BlockAssumption
  <1> QED
    BY <1>1

LEMMA Product ==
    ASSUME NEW x \in Int, NEW q \in Int, x = DMA_BLOCK_SIZE * q
    PROVE  x % DMA_BLOCK_SIZE = 0
  BY BlockAssumption

LEMMA Neighbours ==
    ASSUME NEW x \in Int, x % DMA_BLOCK_SIZE = 0
    PROVE  /\ x + DMA_BLOCK_SIZE \in Int /\ (x + DMA_BLOCK_SIZE) % DMA_BLOCK_SIZE = 0
           /\ x - DMA_BLOCK_SIZE \in Int /\ (x - DMA_BLOCK_SIZE) % DMA_BLOCK_SIZE = 0
  <1>1. PICK q \in Int : x = DMA_BLOCK_SIZE * q
    BY Quotient
  <1>2. /\ x + DMA_BLOCK_SIZE = DMA_BLOCK_SIZE * (q + 1)
        /\ x - DMA_BLOCK_SIZE = DMA_BLOCK_SIZE * (q - 1)
    BY <1>1, BlockAssumption
  <1>3. /\ x + DMA_BLOCK_SIZE \in Int /\ x - DMA_BLOCK_SIZE \in Int
        /\ q + 1 \in Int /\ q - 1 \in Int
    BY BlockAssumption
  <1> QED
    BY ONLY <1>2, <1>3, Product

LEMMA BlockApart ==
    ASSUME NEW x \in Int, NEW y \in Int, x % DMA_BLOCK_SIZE = 0, y % DMA_BLOCK_SIZE = 0, x < y
    PROVE  x + DMA_BLOCK_SIZE <= y
  <1>1. PICK p \in Int : x = DMA_BLOCK_SIZE * p
    BY Quotient
  <1>2. PICK q \in Int : y = DMA_BLOCK_SIZE * q
    BY Quotient
  <1> QED
    BY ONLY <1>1, <1>2, x < y, BlockAssumption

(* A run of blocks, and what one more block at either end makes of it.     *)
LEMMA RunOne ==
    ASSUME NEW x \in Int, x % DMA_BLOCK_SIZE = 0
    PROVE  Run(x, x + DMA_BLOCK_SIZE) = {x}
  <1>1. ASSUME NEW y \in Int, x < y, y < x + DMA_BLOCK_SIZE, y % DMA_BLOCK_SIZE = 0
        PROVE  FALSE
    <2>1. x + DMA_BLOCK_SIZE <= y
      BY <1>1, BlockApart
    <2> QED
      BY <1>1, <2>1, BlockAssumption
  <1> QED
    BY <1>1, BlockAssumption DEF Run

LEMMA RunBelow ==
    ASSUME NEW b \in Int, NEW e \in Int, b % DMA_BLOCK_SIZE = 0, b < e
    PROVE  Run(b - DMA_BLOCK_SIZE, e) = Run(b, e) \cup {b - DMA_BLOCK_SIZE}
  <1>1. ASSUME NEW y \in Int, b - DMA_BLOCK_SIZE < y, y < b, y % DMA_BLOCK_SIZE = 0
        PROVE  FALSE
    <2>1. y + DMA_BLOCK_SIZE <= b
      BY <1>1, BlockApart
    <2> QED
      BY <1>1, <2>1, BlockAssumption
  <1>2. (b - DMA_BLOCK_SIZE) % DMA_BLOCK_SIZE = 0
    BY Neighbours
  <1> QED
    BY <1>1, <1>2, BlockAssumption DEF Run

LEMMA RunAbove ==
    ASSUME NEW b \in Int, NEW e \in Int, e % DMA_BLOCK_SIZE = 0, b < e
    PROVE  Run(b, e + DMA_BLOCK_SIZE) = Run(b, e) \cup {e}
  <1>1. ASSUME NEW y \in Int, e < y, y < e + DMA_BLOCK_SIZE, y % DMA_BLOCK_SIZE = 0
        PROVE  FALSE
    <2>1. e + DMA_BLOCK_SIZE <= y
      BY <1>1, BlockApart
    <2> QED
      BY <1>1, <2>1, BlockAssumption
  <1> QED
    BY <1>1, BlockAssumption DEF Run

(* Whoever has the blocks of a longer run has those of a shorter one.      *)
LEMMA RunLonger ==
    ASSUME NEW b \in Int, NEW n \in Int, NEW m \in Int, n <= m
    PROVE  Run(b, b + n) \subseteq Run(b, b + m)
  BY DEF Run

-----------------------------------------------------------------------------
Phases == {"idle", "first", "more", "end", "find", "grow", "found"}
Segment ==
    [pc : Phases,
     by : {"none", "init", "info", "salloc"}, req : Nat, todo : Int, blks : Seq(Memory),
     size : Nat, begin : Nat]

Locals == [b : Int, e : Int, j : Int, found : {0, 1}]

DmaType ==
    /\ work \in Segment
    /\ tag \in [Memory -> 0 .. 3]
    /\ run \in Locals
    /\ _dma_seg \subseteq [begin : Nat, end : Nat, blks : SUBSET Memory]
    /\ _dma_mem_size \in Nat

(* Each block is in one place.                                             *)
Parted ==
    /\ pages \subseteq Memory /\ reserved \subseteq Memory /\ Got \subseteq Memory
    /\ Memory \subseteq pages \cup reserved \cup Got
    /\ pages \cap reserved = {} /\ pages \cap Got = {} /\ reserved \cap Got = {}

SegmentsApart ==
    /\ reserved = UNION {s.blks : s \in _dma_seg}
    /\ \A s \in _dma_seg : /\ s.blks = Run(s.begin, s.end)
                           /\ \A t \in _dma_seg \ {s} : s.blks \cap t.blks = {}

(* A pool is in a segment, and its size is the one that was asked for.     *)
PoolInSegment ==
    pool # NULL /\ ~_use_himem =>
        \E s \in _dma_seg : s.begin <= node[head].address /\ node[tail].address <= s.end

SizeKnown ==
    /\ _dma_mem_size # 0 => _dma_mem_size >= 2 * LINE
    /\ work.by = "init" => work.req = _dma_mem_size
    /\ pool # NULL => _dma_mem_size # 0

Assembly ==
    /\ work.pc = "idle" => work = NoWork
    /\ ~loaded => work.pc = "idle"
    /\ work.pc # "idle" => work.req >= 1
    /\ work.pc \notin {"first", "more"} => work.todo = 0
    /\ work.pc \in {"first", "more", "end", "grow"} => work.size < work.req
    /\ work.size < work.req + DMA_BLOCK_SIZE
    /\ Run(work.begin, work.begin + work.size) \subseteq Got

(* A run that is done cannot grow: no block without a tag is next to it    *)
(* and none of its blocks begins a longer run.                             *)
Done(a) == tag[a] \in {1, 2}
DoneApart ==
    \A a \in Got : a + DMA_BLOCK_SIZE \in Got => (Done(a) <=> Done(a + DMA_BLOCK_SIZE))
DoneShort ==
    \A a \in Got : Done(a) => ~(Run(a, a + work.size + DMA_BLOCK_SIZE) \subseteq Got)

Finding ==
    /\ work.pc \in {"find", "found"} /\ work.size < work.req =>
           DoneApart /\ DoneShort /\ \A a \in Got : tag[a] # 3
    /\ work.pc = "found" /\ work.size < work.req => \A a \in Got : tag[a] # 0
    /\ work.pc \in {"find", "found"} /\ work.size >= work.req =>
           Largest = Run(work.begin, work.begin + work.size)

(* The blocks with tag 3 are the current run.                              *)
Current == {a \in Got : tag[a] = 3}
RunOK ==
    /\ run.b \in Nat /\ run.b % DMA_BLOCK_SIZE = 0 /\ run.e % DMA_BLOCK_SIZE = 0
    /\ run.b < run.e /\ run.e - run.b < work.req + DMA_BLOCK_SIZE
    /\ Current = Run(run.b, run.e)
    /\ run.found = 0 => run.j = 0
Growing == work.pc = "grow" => DoneApart /\ DoneShort /\ RunOK

MemoryInv == Parted /\ SegmentsApart /\ PoolInSegment /\ SizeKnown
DmaIInv == IInv /\ DmaType /\ MemoryInv /\ Assembly /\ Finding /\ Growing

LEMMA GotBlocks == DmaIInv => Got \subseteq Memory /\ \A a \in Got : a \in Nat /\ a % DMA_BLOCK_SIZE = 0
  BY BlockAssumption DEF DmaIInv, MemoryInv, Parted

-----------------------------------------------------------------------------
LEMMA DmaInitInv == DmaInit => DmaIInv
  <1> SUFFICES ASSUME DmaInit PROVE DmaIInv
    OBVIOUS
  <1>1. IInv
    BY InitInv DEF DmaInit
  <1>2. work = NoWork /\ Got = {}
    BY DEF DmaInit, Got, NoWork
  <1>3. DmaType
    <2>1. NoWork \in Segment
      BY DEF NoWork, Segment, Phases
    <2>2. NoRun \in Locals
      BY DEF NoRun, Locals
    <2> QED
      BY <2>1, <2>2, DmaSizeAssumption DEF DmaInit, DmaType, Untag
  <1>4. MemoryInv
    <2>1. Parted /\ SegmentsApart
      BY <1>2 DEF DmaInit, Parted, SegmentsApart
    <2>2. pool = NULL /\ work.by = "none"
      BY <1>2 DEF DmaInit, Init, NoWork
    <2> QED
      BY <2>1, <2>2, DmaSizeAssumption DEF DmaInit, MemoryInv, PoolInSegment, SizeKnown
  <1>5. Assembly /\ Finding /\ Growing
    <2>1. Run(0, 0 + 0) = {}
      BY DEF Run
    <2> QED
      BY <1>2, <2>1, BlockAssumption DEF Assembly, Finding, Growing, NoWork
  <1> QED
    BY <1>1, <1>3, <1>4, <1>5 DEF DmaIInv

LEMMA PhaseFields ==
    ASSUME NEW w \in Segment, NEW pc \in Phases, NEW todo \in Int
    PROVE  /\ [w EXCEPT !.pc = pc, !.todo = todo] \in Segment
           /\ [w EXCEPT !.todo = todo, !.pc = pc] \in Segment
  BY DEF Segment

GrowBelow(r, b, j) == [r EXCEPT !.b = b, !.j = j, !.found = 1]
GrowAbove(r, e, j) == [r EXCEPT !.e = e, !.j = j, !.found = 1]

LEMMA GrowFields ==
    ASSUME NEW r \in Locals, NEW x \in Int, NEW j \in Int
    PROVE  /\ GrowBelow(r, x, j) \in Locals /\ GrowBelow(r, x, j).b = x
           /\ GrowBelow(r, x, j).e = r.e /\ GrowBelow(r, x, j).found = 1
           /\ GrowAbove(r, x, j) \in Locals /\ GrowAbove(r, x, j).b = r.b
           /\ GrowAbove(r, x, j).e = x /\ GrowAbove(r, x, j).found = 1
  BY DEF Locals, GrowBelow, GrowAbove

LEMMA AgainFields ==
    ASSUME NEW r \in Locals, NEW r1, r1 = [r EXCEPT !.j = 0, !.found = 0]
    PROVE  r1 \in Locals /\ r1.b = r.b /\ r1.e = r.e /\ r1.j = 0 /\ r1.found = 0
  <1>1. 0 \in Int /\ 0 \in {0, 1}
    OBVIOUS
  <1> QED
    BY <1>1, Zenon DEF Locals

(* A step of the assembly moves no block.                                  *)
LEMMA QuietStep ==
    ASSUME DmaIInv, UNCHANGED others, work'.by = work.by, work'.req = work.req,
           work'.blks = work.blks
    PROVE  IInv' /\ MemoryInv' /\ Got' = Got /\ loaded' = loaded
  <1>1. Got' = Got
    BY DEF Got
  <1>2. IInv'
    BY StutterInv DEF DmaIInv, others, vars
  <1>3. Parted' /\ SegmentsApart'
    BY <1>1 DEF DmaIInv, MemoryInv, Parted, SegmentsApart, others
  <1>4. PoolInSegment' /\ SizeKnown'
    BY DEF DmaIInv, MemoryInv, PoolInSegment, SizeKnown, others, vars
  <1> QED
    BY <1>1, <1>2, <1>3, <1>4 DEF MemoryInv, others

LEMMA GetBlockInv == DmaIInv /\ GetBlock => DmaIInv'
  <1> SUFFICES ASSUME DmaIInv, GetBlock PROVE DmaIInv'
    OBVIOUS
  <1>1. PICK a \in pages :
           /\ pages' = pages \ {a}
           /\ work' = [work EXCEPT !.blks = Append(@, a), !.todo = @ - 1]
    BY DEF GetBlock
  <1>2. work.pc \in {"first", "more"} /\ a \in Memory
    BY DEF GetBlock, DmaIInv, MemoryInv, Parted
  <1>3. /\ work'.pc = work.pc /\ work'.by = work.by /\ work'.req = work.req
        /\ work'.size = work.size /\ work'.begin = work.begin
        /\ work'.blks = Append(work.blks, a) /\ work.blks \in Seq(Memory)
    BY <1>1 DEF DmaIInv, DmaType, Segment, Phases
  <1>4. Got' = Got \cup {a}
    <2>1. DOMAIN work.blks = 1 .. Len(work.blks) /\ Len(work.blks) \in Nat
      BY <1>3
    <2>2. DOMAIN work'.blks = 1 .. Len(work.blks) + 1
      BY <1>2, <1>3
    <2>3. \A i \in 1 .. Len(work.blks) + 1 :
             work'.blks[i] = IF i = Len(work.blks) + 1 THEN a ELSE work.blks[i]
      BY <1>2, <1>3
    <2> QED
      BY <2>1, <2>2, <2>3 DEF Got
  <1>5. DmaType'
    <2>1. Append(work.blks, a) \in Seq(Memory) /\ work.todo - 1 \in Int
      BY <1>2 DEF DmaIInv, DmaType, Segment, Phases
    <2>2. work' \in Segment
      BY <1>1, <2>1 DEF DmaIInv, DmaType, Segment, Phases
    <2> QED
      BY <2>2 DEF DmaIInv, DmaType, GetBlock
  <1>6. IInv'
    BY StutterInv DEF DmaIInv, GetBlock
  <1>7. Parted' /\ SegmentsApart'
    BY <1>1, <1>2, <1>4 DEF DmaIInv, MemoryInv, Parted, SegmentsApart, GetBlock
  <1>8. PoolInSegment' /\ SizeKnown'
    BY <1>3 DEF DmaIInv, MemoryInv, PoolInSegment, SizeKnown, GetBlock, vars
  <1>9. Assembly' /\ Finding' /\ Growing'
    BY <1>2, <1>3, <1>4 DEF DmaIInv, Assembly, Finding, Growing, GetBlock
  <1> QED
    BY <1>5, <1>6, <1>7, <1>8, <1>9 DEF DmaIInv, MemoryInv

LEMMA NoBlockInv == DmaIInv /\ NoBlock => DmaIInv'
  <1> SUFFICES ASSUME DmaIInv, NoBlock PROVE DmaIInv'
    OBVIOUS
  <1>1. work.pc \in {"first", "more"}
    BY DEF NoBlock, DmaIInv, Assembly
  <1>2. /\ work'.pc = (IF work.pc = "first" THEN "first" ELSE "end") /\ work'.todo = 0
        /\ work'.by = work.by /\ work'.req = work.req /\ work'.blks = work.blks
        /\ work'.size = work.size /\ work'.begin = work.begin
    BY DEF NoBlock, DmaIInv, DmaType, Segment, Phases
  <1>3. IInv' /\ MemoryInv' /\ Got' = Got /\ loaded' = loaded
    BY <1>2, QuietStep DEF NoBlock
  <1>4. DmaType'
    <2> DEFINE pc == IF work.pc = "first" THEN "first" ELSE "end"
    <2>1. work' = [work EXCEPT !.todo = 0, !.pc = pc]
      BY DEF NoBlock, DmaIInv, DmaType, Segment, Phases
    <2>2. pc \in Phases /\ work \in Segment /\ 0 \in Int
      BY DEF Phases, DmaIInv, DmaType
    <2> HIDE DEF pc
    <2>3. work' \in Segment
      BY ONLY <2>1, <2>2, PhaseFields
    <2> QED
      BY <2>3 DEF DmaIInv, DmaType, NoBlock, others
  <1>5. Assembly' /\ Finding' /\ Growing'
    BY <1>1, <1>2, <1>3 DEF DmaIInv, Assembly, Finding, Growing
  <1> QED
    BY <1>3, <1>4, <1>5 DEF DmaIInv

LEMMA WantMoreInv == DmaIInv /\ WantMore => DmaIInv'
  <1> SUFFICES ASSUME DmaIInv, WantMore PROVE DmaIInv'
    OBVIOUS
  <1>1. /\ work.pc = "found" /\ work.size < work.req
        /\ work.todo = 0
    BY DEF WantMore, DmaIInv, Assembly
  <1>2. /\ \/ work'.pc = "end" /\ work'.todo = 0
           \/ work'.pc = "more" /\ work'.todo \in Int
        /\ work'.by = work.by /\ work'.req = work.req /\ work'.blks = work.blks
        /\ work'.size = work.size /\ work'.begin = work.begin
    BY <1>1, CountAssumption DEF WantMore, DmaIInv, DmaType
  <1>3. IInv' /\ MemoryInv' /\ Got' = Got /\ loaded' = loaded
    BY <1>2, QuietStep DEF WantMore
  <1>4. DmaType'
    <2>1. CASE work' = [work EXCEPT !.pc = "end"]
      BY <2>1 DEF DmaIInv, DmaType, Segment, Phases, WantMore, others
    <2>2. CASE work' = [work EXCEPT !.pc = "more", !.todo = MORE_BLKS]
      <3>1. "more" \in Phases /\ MORE_BLKS \in Int /\ work \in Segment
        BY CountAssumption DEF Phases, DmaIInv, DmaType
      <3>2. work' \in Segment
        BY <2>2, <3>1, PhaseFields
      <3> QED
        BY <3>2 DEF DmaIInv, DmaType, WantMore, others
    <2> QED
      BY <2>1, <2>2 DEF DmaIInv, DmaType, WantMore, others
  <1>5. Assembly' /\ Finding' /\ Growing'
    BY <1>1, <1>2, <1>3 DEF DmaIInv, Assembly, Finding, Growing
  <1> QED
    BY <1>3, <1>4, <1>5 DEF DmaIInv

LEMMA FindRunInv == DmaIInv /\ FindRun => DmaIInv'
  <1> SUFFICES ASSUME DmaIInv, FindRun PROVE DmaIInv'
    OBVIOUS
  <1>1. work.pc \in {"first", "more"} /\ work.size < work.req /\ work.todo = 0
    BY DEF FindRun, DmaIInv, Assembly
  <1>2. /\ work'.pc = "find" /\ work'.todo = 0
        /\ work'.by = work.by /\ work'.req = work.req /\ work'.blks = work.blks
        /\ work'.size = work.size /\ work'.begin = work.begin
    BY <1>1 DEF FindRun, DmaIInv, DmaType
  <1>3. IInv' /\ MemoryInv' /\ Got' = Got /\ loaded' = loaded
    BY <1>2, QuietStep DEF FindRun
  <1>4. DmaType'
    BY DEF DmaIInv, DmaType, Segment, Phases, FindRun, Untag, others
  <1>5. \A a \in Got : a \in Memory /\ tag'[a] = 0
    BY GotBlocks DEF FindRun, Untag
  <1>6. Assembly'
    BY <1>1, <1>2, <1>3 DEF DmaIInv, Assembly
  <1>7. DoneApart' /\ DoneShort' /\ \A a \in Got' : tag'[a] # 3
    BY <1>3, <1>5 DEF DoneApart, DoneShort, Done
  <1>8. Finding' /\ Growing'
    <2>1. work.size \in Int /\ work.req \in Int
      BY DEF DmaIInv, DmaType, Segment, Phases
    <2> QED
      BY <1>1, <1>2, <1>7, <2>1 DEF Finding, Growing
  <1> QED
    BY <1>3, <1>4, <1>6, <1>8 DEF DmaIInv

(* The loop ends when no block is left without a tag.                      *)
LEMMA NoneUntagged ==
    ASSUME DmaIInv, Untagged = {}
    PROVE  \A a \in Got : tag[a] # 0
  BY DEF Untagged, Got

LEMMA FirstBlockInv == DmaIInv /\ FirstBlock => DmaIInv'
  <1> SUFFICES ASSUME DmaIInv, FirstBlock PROVE DmaIInv'
    OBVIOUS
  <1>1. /\ work.pc = "find" /\ work.size < work.req /\ work.todo = 0
        /\ work.size \in Int /\ work.req \in Int
    BY DEF FirstBlock, DmaIInv, DmaType, Segment, Assembly
  <1>2. PICK a \in Got :
           /\ tag[a] = 0 /\ tag' = [tag EXCEPT ![a] = 3]
           /\ run' = [b |-> a, e |-> a + DMA_BLOCK_SIZE, j |-> 0, found |-> 0]
    BY DEF FirstBlock, Untagged, Got
  <1>3. /\ work'.pc = "grow" /\ work'.todo = work.todo
        /\ work'.by = work.by /\ work'.req = work.req /\ work'.blks = work.blks
        /\ work'.size = work.size /\ work'.begin = work.begin
    BY DEF FirstBlock, DmaIInv, DmaType, Segment
  <1>4. IInv' /\ MemoryInv' /\ Got' = Got /\ loaded' = loaded
    BY <1>3, QuietStep DEF FirstBlock
  <1>5. a \in Nat /\ a % DMA_BLOCK_SIZE = 0 /\ Got \subseteq Memory
    BY GotBlocks
  <1>6. DmaType'
    <2>1. work' \in Segment
      BY DEF FirstBlock, DmaIInv, DmaType, Segment, Phases
    <2>2. tag' \in [Memory -> 0 .. 3]
      BY <1>2, <1>5 DEF DmaIInv, DmaType
    <2>3. a + DMA_BLOCK_SIZE \in Int
      BY <1>5, BlockAssumption
    <2>4. run' \in Locals
      BY <1>2, <1>5, <2>3 DEF Locals
    <2> QED
      BY <2>1, <2>2, <2>4 DEF DmaIInv, DmaType, FirstBlock, others
  <1>7. \A x \in Got : tag'[x] = IF x = a THEN 3 ELSE tag[x]
    BY <1>2, <1>5 DEF DmaIInv, DmaType
  <1>8. DoneApart /\ DoneShort /\ \A x \in Got : tag[x] # 3
    BY <1>1 DEF DmaIInv, Finding
  <1>9. DoneApart' /\ DoneShort'
    BY <1>2, <1>3, <1>4, <1>7, <1>8 DEF DoneApart, DoneShort, Done
  <1>10. RunOK'
    <2>1. run'.b = a /\ run'.e = a + DMA_BLOCK_SIZE /\ run'.j = 0 /\ run'.found = 0
      BY <1>2
    <2>2. Current' = Run(a, a + DMA_BLOCK_SIZE)
      <3>1. Current' = {a}
        BY <1>2, <1>4, <1>7, <1>8 DEF Current
      <3> QED
        BY <1>5, <3>1, RunOne
    <2>3. (a + DMA_BLOCK_SIZE) % DMA_BLOCK_SIZE = 0
      BY <1>5, Neighbours
    <2>4. a < a + DMA_BLOCK_SIZE /\ a + DMA_BLOCK_SIZE - a < work.req + DMA_BLOCK_SIZE
      BY <1>1, <1>5, BlockAssumption DEF DmaIInv, DmaType, Segment, Assembly
    <2> QED
      BY ONLY <1>1, <1>3, <1>5, <2>1, <2>2, <2>3, <2>4, BlockAssumption DEF RunOK
  <1>11. Assembly'
    BY <1>1, <1>3, <1>4 DEF DmaIInv, Assembly
  <1>12. Finding' /\ Growing'
    BY <1>3, <1>9, <1>10 DEF Finding, Growing
  <1> QED
    BY <1>4, <1>6, <1>11, <1>12 DEF DmaIInv

LEMMA AdjacentBlockInv == DmaIInv /\ AdjacentBlock => DmaIInv'
  <1> SUFFICES ASSUME DmaIInv, AdjacentBlock PROVE DmaIInv'
    OBVIOUS
  <1>1. /\ work.pc = "grow" /\ work.todo = 0 /\ DoneApart /\ DoneShort /\ RunOK
        /\ work.size \in Int /\ work.req \in Int
    BY DEF AdjacentBlock, DmaIInv, DmaType, Segment, Assembly, Growing
  <1>2. /\ run.b \in Int /\ run.e \in Int /\ run.b < run.e
        /\ run \in Locals
    BY <1>1 DEF RunOK, DmaIInv, DmaType, Locals
  <1>3. PICK j \in DOMAIN work.blks :
           /\ tag[work.blks[j]] = 0 /\ run.e - run.b < work.req
           /\ work.blks[j] = run.b - DMA_BLOCK_SIZE \/ work.blks[j] = run.e
           /\ tag' = [tag EXCEPT ![work.blks[j]] = 3]
           /\ run' = IF work.blks[j] = run.b - DMA_BLOCK_SIZE
                     THEN [run EXCEPT !.b = work.blks[j], !.j = j, !.found = 1]
                     ELSE [run EXCEPT !.e = @ + DMA_BLOCK_SIZE, !.j = j, !.found = 1]
    BY DEF AdjacentBlock, Adjacent, Untagged
  <1> DEFINE a == work.blks[j]
  <1>4. UNCHANGED <<work, others>> /\ a \in Got /\ j \in Int
    BY DEF AdjacentBlock, Got, DmaIInv, DmaType, Segment
  <1>5. a \in Nat /\ a % DMA_BLOCK_SIZE = 0 /\ Got \subseteq Memory
    BY <1>4, GotBlocks
  <1>6. IInv' /\ MemoryInv' /\ Got' = Got /\ loaded' = loaded
    BY <1>4, QuietStep
  <1>7. /\ run'.found = 1 /\ run' \in Locals
        /\ \/ a = run.b - DMA_BLOCK_SIZE /\ run'.b = a /\ run'.e = run.e
           \/ a = run.e /\ run'.b = run.b /\ run'.e = run.e + DMA_BLOCK_SIZE
    <2>0. /\ a = run.b - DMA_BLOCK_SIZE \/ a = run.e
          /\ run' = IF a = run.b - DMA_BLOCK_SIZE
                    THEN [run EXCEPT !.b = a, !.j = j, !.found = 1]
                    ELSE [run EXCEPT !.e = run.e + DMA_BLOCK_SIZE, !.j = j, !.found = 1]
      BY <1>3
    <2>3. run \in Locals /\ a \in Int /\ run.e + DMA_BLOCK_SIZE \in Int /\ 1 \in {0, 1}
      BY <1>2, <1>5, BlockAssumption
    <2> HIDE DEF a
    <2>1. CASE a = run.b - DMA_BLOCK_SIZE
      <3>1. run' = GrowBelow(run, a, j)
        BY <2>0, <2>1 DEF GrowBelow
      <3>2. j \in Int /\ a \in Int /\ run \in Locals
        BY <1>4, <2>3
      <3>3. run' \in Locals /\ run'.b = a /\ run'.e = run.e /\ run'.found = 1
        BY ONLY <3>1, <3>2, GrowFields
      <3> QED
        BY ONLY <2>1, <3>3
    <2>2. CASE a # run.b - DMA_BLOCK_SIZE
      <3>1. run' = GrowAbove(run, run.e + DMA_BLOCK_SIZE, j) /\ a = run.e
        BY <2>0, <2>2 DEF GrowAbove
      <3>2. j \in Int /\ run.e + DMA_BLOCK_SIZE \in Int /\ run \in Locals
        BY <1>4, <2>3
      <3>3. /\ run' \in Locals /\ run'.b = run.b /\ run'.e = run.e + DMA_BLOCK_SIZE
            /\ run'.found = 1
        BY ONLY <3>1, <3>2, GrowFields
      <3> QED
        BY ONLY <3>1, <3>3
    <2> QED
      BY <2>1, <2>2
  <1>8. tag[a] = 0 /\ tag' = [tag EXCEPT ![a] = 3] /\ run.e - run.b < work.req
    BY <1>3
  <1> HIDE DEF a
  <1>9. \A x \in Got : tag'[x] = IF x = a THEN 3 ELSE tag[x]
    BY <1>5, <1>8 DEF DmaIInv, DmaType
  <1>10. DmaType'
    BY <1>4, <1>5, <1>7, <1>8 DEF DmaIInv, DmaType, others
  <1>11. DoneApart' /\ DoneShort'
    BY <1>1, <1>4, <1>6, <1>8, <1>9 DEF DoneApart, DoneShort, Done
  <1>12. Current' = Current \cup {a}
    BY <1>4, <1>6, <1>9 DEF Current
  <1>13. RunOK'
    <2>1. CASE a = run.b - DMA_BLOCK_SIZE /\ run'.b = a /\ run'.e = run.e
      <3>1. Current' = Run(a, run.e)
        BY <1>1, <1>2, <1>12, <2>1, RunBelow DEF RunOK
      <3> QED
        BY <1>1, <1>2, <1>4, <1>5, <1>7, <1>8, <2>1, <3>1, BlockAssumption DEF RunOK
    <2>2. CASE a = run.e /\ run'.b = run.b /\ run'.e = run.e + DMA_BLOCK_SIZE
      <3>1. Current' = Run(run.b, run.e + DMA_BLOCK_SIZE)
        BY <1>1, <1>2, <1>12, <2>2, RunAbove DEF RunOK
      <3>2. (run.e + DMA_BLOCK_SIZE) % DMA_BLOCK_SIZE = 0
        BY <1>1, <1>2, Neighbours DEF RunOK
      <3> QED
        BY <1>1, <1>2, <1>4, <1>7, <1>8, <2>2, <3>1, <3>2, BlockAssumption DEF RunOK
    <2> QED
      BY <1>7, <2>1, <2>2
  <1>14. Assembly' /\ Finding' /\ Growing'
    BY <1>1, <1>4, <1>6, <1>11, <1>13 DEF DmaIInv, Assembly, Finding, Growing
  <1> QED
    BY <1>6, <1>10, <1>14 DEF DmaIInv

LEMMA NextPassInv == DmaIInv /\ NextPass => DmaIInv'
  <1> SUFFICES ASSUME DmaIInv, NextPass PROVE DmaIInv'
    OBVIOUS
  <1>1. work.pc = "grow" /\ UNCHANGED <<work, tag, others>>
    BY DEF NextPass
  <1>2. IInv' /\ MemoryInv' /\ Got' = Got /\ loaded' = loaded
    BY <1>1, QuietStep
  <1>3. /\ run'.b = run.b /\ run'.e = run.e /\ run'.j = 0 /\ run'.found = 0
        /\ run' \in Locals
    <2>1. run' = [run EXCEPT !.j = 0, !.found = 0] /\ 0 \in Int /\ 0 \in {0, 1} /\ run \in Locals
      BY DEF NextPass, DmaIInv, DmaType
    <2> QED
      BY ONLY <2>1, AgainFields
  <1>4. DmaType'
    BY <1>1, <1>3 DEF DmaIInv, DmaType, others
  <1>5. DoneApart /\ DoneShort /\ RunOK
    BY <1>1 DEF DmaIInv, Growing
  <1>6. DoneApart' /\ DoneShort' /\ RunOK'
    BY <1>1, <1>2, <1>3, <1>5 DEF DoneApart, DoneShort, Done, RunOK, Current
  <1>7. Assembly' /\ Finding' /\ Growing'
    BY <1>1, <1>2, <1>6 DEF DmaIInv, Assembly, Finding, Growing
  <1> QED
    BY <1>2, <1>4, <1>7 DEF DmaIInv

(* When the passes end, no block next to the current run is left.          *)
LEMMA NoneAdjacent ==
    ASSUME DmaIInv, Adjacent = {}, run.j = 0, run.e - run.b < work.req,
           NEW x \in Got, tag[x] = 0
    PROVE  x # run.b - DMA_BLOCK_SIZE /\ x # run.e
  <1>1. PICK i \in DOMAIN work.blks : x = work.blks[i]
    BY DEF Got
  <1>2. i \in Int /\ i > 0
    BY DEF DmaIInv, DmaType, Segment
  <1>3. i \notin Adjacent
    OBVIOUS
  <1> QED
    BY <1>1, <1>2, <1>3 DEF Adjacent, Untagged

(* The blocks of the current run are done, and their neighbours were.      *)
LEMMA RunMaximal ==
    ASSUME DmaIInv, DoneApart, DoneShort, RunOK, run.e - run.b < work.req,
           \A x \in Got : tag[x] = 0 => x # run.b - DMA_BLOCK_SIZE /\ x # run.e,
           NEW size \in Int, work.size <= size, run.e - run.b <= size
    PROVE  /\ \A x \in Got : x + DMA_BLOCK_SIZE \in Got =>
                  (tag[x] # 0 <=> tag[x + DMA_BLOCK_SIZE] # 0)
           /\ \A x \in Got : tag[x] # 0 => ~(Run(x, x + size + DMA_BLOCK_SIZE) \subseteq Got)
  <1> DEFINE b == run.b
             e == run.e
  <1>1. /\ b \in Int /\ e \in Int /\ b % DMA_BLOCK_SIZE = 0 /\ e % DMA_BLOCK_SIZE = 0 /\ b < e
        /\ work.size \in Int
    BY DEF DmaIInv, DmaType, Locals, RunOK, Segment
  <1>2. \A x \in Got : x \in Int /\ x % DMA_BLOCK_SIZE = 0 /\ tag[x] \in 0 .. 3
    BY GotBlocks DEF DmaIInv, DmaType
  <1>3. \A x \in Got : tag[x] = 3 <=> b <= x /\ x < e
    <2>1. \A x \in Got : tag[x] = 3 <=> x \in Run(b, e)
      BY DEF RunOK, Current
    <2> QED
      BY <1>1, <1>2, <2>1 DEF Run
  <1>4. \A x \in Got : tag[x] = 0 => x # b - DMA_BLOCK_SIZE /\ x # e
    OBVIOUS
  <1>5. DMA_BLOCK_SIZE \in Int /\ DMA_BLOCK_SIZE > 0
    BY BlockAssumption
  <1> HIDE DEF b, e
  <1>6. ASSUME NEW x \in Got, x + DMA_BLOCK_SIZE \in Got
        PROVE  tag[x] # 0 <=> tag[x + DMA_BLOCK_SIZE] # 0
    <2> DEFINE y == x + DMA_BLOCK_SIZE
    <2>1. /\ x \in Int /\ y \in Int /\ y = x + DMA_BLOCK_SIZE
          /\ tag[x] \in 0 .. 3 /\ tag[y] \in 0 .. 3 /\ y \in Got
      BY <1>2, <1>5, <1>6
    <2>2. tag[x] \in {1, 2} <=> tag[y] \in {1, 2}
      BY <1>6 DEF DoneApart, Done
    <2>3. x < e => y <= e
      BY <1>1, <1>2, BlockApart
    <2>4. x < b => y <= b
      BY <1>1, <1>2, BlockApart
    <2> HIDE DEF y
    <2>5. ASSUME tag[x] = 3, tag[y] = 0
          PROVE  FALSE
      <3>1. b <= x /\ x < e /\ ~(b <= y /\ y < e) /\ y # e
        BY <1>3, <1>4, <2>1, <2>5
      <3> QED
        BY <1>1, <1>5, <2>1, <2>3, <3>1
    <2>6. ASSUME tag[y] = 3, tag[x] = 0
          PROVE  FALSE
      <3>1. b <= y /\ y < e /\ ~(b <= x /\ x < e) /\ x # b - DMA_BLOCK_SIZE
        BY <1>3, <1>4, <2>1, <2>6
      <3> QED
        BY <1>1, <1>5, <2>1, <2>4, <3>1
    <2>7. tag[x] # 0 <=> tag[y] # 0
      BY <2>1, <2>2, <2>5, <2>6
    <2> QED
      BY <2>7 DEF y
  <1>7. ASSUME NEW x \in Got, tag[x] # 0, Run(x, x + size + DMA_BLOCK_SIZE) \subseteq Got
        PROVE  FALSE
    <2>1. x \in Int
      BY <1>2
    <2>2. CASE Done(x)
      <3>1. Run(x, x + (work.size + DMA_BLOCK_SIZE)) \subseteq Run(x, x + (size + DMA_BLOCK_SIZE))
        <4>1. /\ work.size + DMA_BLOCK_SIZE \in Int /\ size + DMA_BLOCK_SIZE \in Int
              /\ work.size + DMA_BLOCK_SIZE <= size + DMA_BLOCK_SIZE
          BY <1>1, <1>5
        <4> QED
          BY ONLY <2>1, <4>1, RunLonger
      <3>2. /\ x + (work.size + DMA_BLOCK_SIZE) = x + work.size + DMA_BLOCK_SIZE
            /\ x + (size + DMA_BLOCK_SIZE) = x + size + DMA_BLOCK_SIZE
        BY <1>1, <1>5, <2>1
      <3> QED
        BY <1>7, <2>2, <3>1, <3>2 DEF DoneShort
    <2>3. CASE tag[x] = 3
      <3>1. b <= x /\ x < e
        BY <1>3, <2>3
      <3>2. e - b <= size
        BY DEF b, e
      <3>3. e \in Run(x, x + size + DMA_BLOCK_SIZE)
        BY <1>1, <1>5, <2>1, <3>1, <3>2 DEF Run
      <3>4. e \in Got /\ Done(e)
        BY <1>1, <1>2, <1>3, <1>4, <1>7, <3>3 DEF Done
      <3>5. b + DMA_BLOCK_SIZE <= e
        BY <1>1, BlockApart
      <3> DEFINE l == e - DMA_BLOCK_SIZE
      <3>6. l \in Int /\ l % DMA_BLOCK_SIZE = 0 /\ b <= l /\ l < e /\ l + DMA_BLOCK_SIZE = e
        BY <1>1, <1>5, <3>5, Neighbours
      <3>7. l \in Run(b, e)
        BY <1>1, <3>6 DEF Run
      <3>8. l \in Got /\ tag[l] = 3
        BY <3>7 DEF RunOK, Current, b, e
      <3> HIDE DEF l
      <3>9. Done(l)
        BY <3>4, <3>6, <3>8 DEF DoneApart
      <3> QED
        BY <3>8, <3>9 DEF Done
    <2> QED
      BY <1>2, <1>7, <2>2, <2>3 DEF Done
  <1> QED
    BY <1>6, <1>7

LEMMA RunEndsInv == DmaIInv /\ RunEnds => DmaIInv'
  <1> SUFFICES ASSUME DmaIInv, RunEnds PROVE DmaIInv'
    OBVIOUS
  <1> DEFINE larger == run.e - run.b > work.size
             n == run.e - run.b
  <1>1. /\ work.pc = "grow" /\ work.todo = 0 /\ work.size < work.req
        /\ DoneApart /\ DoneShort /\ RunOK /\ UNCHANGED others
    BY DEF RunEnds, DmaIInv, Assembly, Growing
  <1>2. /\ work.size \in Nat /\ work.begin \in Nat /\ work.req \in Int /\ work \in Segment
        /\ run.b \in Nat /\ run.e \in Int /\ run.b < run.e /\ n \in Nat
        /\ n < work.req + DMA_BLOCK_SIZE
    BY <1>1 DEF RunOK, DmaIInv, DmaType, Locals, Segment
  <1>3. run.j = 0
    BY <1>1 DEF RunEnds, OneMorePass, RunOK, DmaIInv, DmaType, Locals
  <1>4. /\ work'.pc = "find" /\ work'.todo = work.todo /\ work' \in Segment
        /\ work'.by = work.by /\ work'.req = work.req /\ work'.blks = work.blks
        /\ larger => work'.begin = run.b /\ work'.size = n
        /\ ~larger => work'.begin = work.begin /\ work'.size = work.size
    <2>1. "find" \in Phases
      BY DEF Phases
    <2>2. CASE larger
      <3>1. work' = [work EXCEPT !.pc = "find", !.begin = run.b, !.size = n]
        BY <2>2 DEF RunEnds
      <3> HIDE DEF n
      <3> QED
        BY <1>2, <2>1, <2>2, <3>1 DEF Segment
    <2>3. CASE ~larger
      <3>1. work' = [work EXCEPT !.pc = "find"]
        BY <2>3 DEF RunEnds
      <3> QED
        BY <1>2, <2>1, <2>3, <3>1 DEF Segment
    <2> QED
      BY <2>2, <2>3
  <1>5. IInv' /\ MemoryInv' /\ Got' = Got /\ loaded' = loaded
    BY <1>1, <1>4, QuietStep
  <1>6. tag' = Retag(larger) /\ run' = NoRun
    BY DEF RunEnds
  <1>7. \A x \in Memory : /\ tag[x] \in 0 .. 3 /\ tag'[x] \in 0 .. 2
                          /\ tag'[x] = 0 <=> tag[x] = 0
                          /\ larger => (tag'[x] = 2 <=> tag[x] = 3)
    <2>1. \A x \in Memory : tag[x] \in 0 .. 3
      BY DEF DmaIInv, DmaType
    <2>2. \A x \in Memory : tag'[x] = CASE tag[x] = 3 -> IF larger THEN 2 ELSE 1
                                        [] tag[x] = 2 -> IF larger THEN 1 ELSE 2
                                        [] OTHER      -> tag[x]
      BY <1>6 DEF Retag
    <2> HIDE DEF larger
    <2> QED
      BY <2>1, <2>2
  <1>8. DmaType'
    <2>1. tag' \in [Memory -> 0 .. 3]
      <3>1. tag' = [x \in Memory |-> tag'[x]]
        BY <1>6 DEF Retag
      <3> QED
        BY <1>7, <3>1
    <2>2. NoRun \in Locals
      BY DEF NoRun, Locals
    <2> QED
      BY <1>1, <1>4, <1>6, <2>1, <2>2 DEF DmaIInv, DmaType, others
  <1>9. Got \subseteq Memory /\ Current = Run(run.b, run.b + n) /\ Current \subseteq Got
    <2>1. run.b + n = run.e
      BY <1>2
    <2> HIDE DEF n
    <2> QED
      BY <1>1, <2>1, GotBlocks DEF RunOK, Current
  <1>10. work'.size \in Int /\ work.size <= work'.size /\ n <= work'.size
    BY <1>2, <1>4
  <1>11. Assembly'
    <2> HIDE DEF larger, n
    <2>1. work'.size < work'.req + DMA_BLOCK_SIZE
      BY <1>2, <1>4 DEF DmaIInv, Assembly
    <2>2. Run(work'.begin, work'.begin + work'.size) \subseteq Got
      BY <1>4, <1>9 DEF DmaIInv, Assembly
    <2> QED
      BY <1>1, <1>4, <1>5, <2>1, <2>2 DEF DmaIInv, Assembly
  <1>12. CASE work'.size < work'.req
    <2>1. n < work.req
      BY <1>2, <1>4, <1>10, <1>12
    <2>2. \A x \in Got : tag[x] = 0 => x # run.b - DMA_BLOCK_SIZE /\ x # run.e
      BY <1>3, <2>1, NoneAdjacent DEF RunEnds
    <2>3. /\ \A x \in Got : x + DMA_BLOCK_SIZE \in Got =>
                  (tag[x] # 0 <=> tag[x + DMA_BLOCK_SIZE] # 0)
          /\ \A x \in Got : tag[x] # 0 =>
                  ~(Run(x, x + work'.size + DMA_BLOCK_SIZE) \subseteq Got)
      BY <1>1, <1>10, <2>1, <2>2, RunMaximal
    <2>4. \A x \in Got : (tag'[x] \in {1, 2} <=> tag[x] # 0) /\ tag'[x] # 3
      BY <1>7, <1>9
    <2>5. DoneApart' /\ DoneShort' /\ \A x \in Got' : tag'[x] # 3
      BY <1>5, <2>3, <2>4 DEF DoneApart, DoneShort, Done
    <2> QED
      BY <1>4, <1>5, <1>8, <1>10, <1>11, <1>12, <2>5 DEF DmaIInv, Finding, Growing, DmaType, Segment
  <1>13. CASE ~(work'.size < work'.req)
    <2>1. larger
      BY <1>1, <1>2, <1>4, <1>13
    <2>2. Largest' = Current
      BY <1>5, <1>7, <1>9, <2>1 DEF Largest, Current
    <2>3. Largest' = Run(work'.begin, work'.begin + work'.size)
      BY <1>4, <1>9, <2>1, <2>2
    <2> QED
      BY <1>4, <1>5, <1>8, <1>11, <1>13, <2>3 DEF DmaIInv, Finding, Growing
  <1> QED
    BY <1>12, <1>13

LEMMA RunFoundInv == DmaIInv /\ RunFound => DmaIInv'
  <1> SUFFICES ASSUME DmaIInv, RunFound PROVE DmaIInv'
    OBVIOUS
  <1>1. /\ work.pc = "find" /\ work.todo = 0 /\ UNCHANGED <<tag, run, others>>
        /\ work.size \in Int /\ work.req \in Int
    BY DEF RunFound, DmaIInv, Assembly, DmaType, Segment
  <1>2. /\ work'.pc = "found" /\ work'.todo = work.todo /\ work' \in Segment
        /\ work'.by = work.by /\ work'.req = work.req /\ work'.blks = work.blks
        /\ work'.size = work.size /\ work'.begin = work.begin
    BY DEF RunFound, DmaIInv, DmaType, Segment, Phases
  <1>3. IInv' /\ MemoryInv' /\ Got' = Got /\ loaded' = loaded
    BY <1>1, <1>2, QuietStep
  <1>4. DmaType'
    BY <1>1, <1>2 DEF DmaIInv, DmaType, others
  <1>5. work.size < work.req => \A a \in Got : tag[a] # 0
    BY <1>1, NoneUntagged DEF RunFound
  <1>6. Assembly'
    BY <1>1, <1>2, <1>3 DEF DmaIInv, Assembly
  <1>7. Finding' /\ Growing'
    BY <1>1, <1>2, <1>3, <1>5
       DEF DmaIInv, Finding, Growing, DoneApart, DoneShort, Done, Largest
  <1> QED
    BY <1>3, <1>4, <1>6, <1>7 DEF DmaIInv

-----------------------------------------------------------------------------
(* When the assembly is over.                                              *)
LEMMA NoWorkInv ==
    ASSUME DmaIInv, work' = NoWork, tag' = Untag, run' = run
    PROVE  /\ work' \in Segment /\ tag' \in [Memory -> 0 .. 3] /\ run' \in Locals
           /\ Got' = {} /\ work'.by = "none" /\ Assembly' /\ Finding' /\ Growing'
  <1>1. Got' = {} /\ work'.by = "none" /\ work'.pc = "idle" /\ work'.todo = 0
    BY DEF Got, NoWork
  <1>2. Run(0, 0 + 0) = {}
    BY DEF Run
  <1>3. work' \in Segment /\ tag' \in [Memory -> 0 .. 3] /\ run' \in Locals
    BY DEF NoWork, Untag, Segment, Phases, DmaIInv, DmaType
  <1>4. work'.size = 0 /\ work'.begin = 0 /\ work'.req = 0
    BY DEF NoWork
  <1>5. Assembly'
    BY <1>1, <1>2, <1>4, BlockAssumption DEF Assembly
  <1> QED
    BY <1>1, <1>3, <1>5 DEF Finding, Growing

LEMMA SegmentTooShortInv == DmaIInv /\ SegmentTooShort => DmaIInv'
  <1> SUFFICES ASSUME DmaIInv, SegmentTooShort PROVE DmaIInv'
    OBVIOUS
  <1>1. /\ pages' = pages \cup Got
        /\ UNCHANGED <<run, reserved, _dma_seg, _dma_vbase, _dma_mem_size, _use_himem, loaded,
                       vars>>
    BY DEF SegmentTooShort
  <1>2. /\ work' \in Segment /\ tag' \in [Memory -> 0 .. 3] /\ run' \in Locals
        /\ Got' = {} /\ work'.by = "none" /\ Assembly' /\ Finding' /\ Growing'
    BY NoWorkInv DEF SegmentTooShort
  <1>3. IInv'
    BY <1>1, StutterInv DEF DmaIInv
  <1>4. DmaType'
    BY <1>1, <1>2 DEF DmaIInv, DmaType
  <1>5. Parted' /\ SegmentsApart'
    BY <1>1, <1>2 DEF DmaIInv, MemoryInv, Parted, SegmentsApart
  <1>6. PoolInSegment' /\ SizeKnown'
    BY <1>1, <1>2 DEF DmaIInv, MemoryInv, PoolInSegment, SizeKnown, vars
  <1> QED
    BY <1>2, <1>3, <1>4, <1>5, <1>6 DEF DmaIInv, MemoryInv

LEMMA SegmentFoundInv == DmaIInv /\ SegmentFound => DmaIInv'
  <1> SUFFICES ASSUME DmaIInv, SegmentFound PROVE DmaIInv'
    OBVIOUS
  <1> DEFINE seg == [begin |-> work.begin, end |-> work.begin + work.size, blks |-> Largest]
             r == [addr |-> work.begin, size |-> work.req]
  <1>1. /\ work' = NoWork /\ tag' = Untag
        /\ UNCHANGED <<run, _dma_mem_size, _use_himem, loaded>>
    BY DEF SegmentFound
  <1>2. /\ work' \in Segment /\ tag' \in [Memory -> 0 .. 3] /\ run' \in Locals
        /\ Got' = {} /\ work'.by = "none" /\ Assembly' /\ Finding' /\ Growing'
    BY <1>1, NoWorkInv
  <1>3. /\ work.begin \in Nat /\ work.size \in Nat /\ work.req \in Nat /\ work.size >= work.req
        /\ Largest = Run(work.begin, work.begin + work.size)
        /\ Largest \subseteq Got /\ Got \subseteq Memory
    BY DEF SegmentFound, DmaIInv, DmaType, Segment, Finding, Largest, MemoryInv, Parted
  <1>4. CASE /\ work.by # "salloc" /\ pages' = pages \cup Got
             /\ UNCHANGED <<reserved, _dma_seg, _dma_vbase, vars>>
    <2>1. IInv'
      BY <1>4, StutterInv DEF DmaIInv
    <2>2. DmaType'
      BY <1>1, <1>2, <1>4 DEF DmaIInv, DmaType
    <2>3. Parted' /\ SegmentsApart'
      BY <1>2, <1>4 DEF DmaIInv, MemoryInv, Parted, SegmentsApart
    <2>4. PoolInSegment' /\ SizeKnown'
      BY <1>1, <1>2, <1>4 DEF DmaIInv, MemoryInv, PoolInSegment, SizeKnown, vars
    <2> QED
      BY <1>2, <2>1, <2>2, <2>3, <2>4 DEF DmaIInv, MemoryInv
  <1>5. CASE /\ pages' = pages \cup (Got \ Largest)
             /\ reserved' = reserved \cup Largest
             /\ _dma_seg' = _dma_seg \cup {seg}
             /\ IF work.by = "salloc" THEN UNCHANGED <<_dma_vbase, vars>>
                ELSE _dma_vbase' = r /\ CreatePool(r)
    <2>1. /\ seg \in [begin : Nat, end : Nat, blks : SUBSET Memory]
          /\ seg.begin = work.begin /\ seg.end = work.begin + work.size /\ seg.blks = Largest
      BY <1>3
    <2>2. r.addr = work.begin /\ r.size = work.req
      OBVIOUS
    <2>3. (work.by = "init" /\ mpool_create(r)) \/ UNCHANGED vars
      BY <1>5 DEF CreatePool, vars
    <2> HIDE DEF seg, r
    <2>4. DmaType'
      BY <1>1, <1>2, <1>5, <2>1 DEF DmaIInv, DmaType
    <2>5. Parted'
      BY <1>2, <1>3, <1>5 DEF DmaIInv, MemoryInv, Parted
    <2>6. SegmentsApart'
      <3>1. reserved' = UNION {s.blks : s \in _dma_seg'}
        BY <1>5, <2>1 DEF DmaIInv, MemoryInv, SegmentsApart
      <3>2. \A s \in _dma_seg : s.blks \subseteq reserved /\ s.blks \cap seg.blks = {}
        BY <1>3, <2>1 DEF DmaIInv, MemoryInv, SegmentsApart, Parted
      <3>3. \A s \in _dma_seg' : s.blks = Run(s.begin, s.end)
        BY <1>3, <1>5, <2>1 DEF DmaIInv, MemoryInv, SegmentsApart
      <3>4. \A s \in _dma_seg' : \A t \in _dma_seg' \ {s} : s.blks \cap t.blks = {}
        BY <1>5, <3>2 DEF DmaIInv, MemoryInv, SegmentsApart
      <3> QED
        BY <3>1, <3>3, <3>4 DEF SegmentsApart
    <2>7. CASE UNCHANGED vars
      <3>1. IInv'
        BY <2>7, StutterInv DEF DmaIInv
      <3>2. PoolInSegment' /\ SizeKnown'
        BY <1>1, <1>2, <1>5, <2>7 DEF DmaIInv, MemoryInv, PoolInSegment, SizeKnown, vars
      <3> QED
        BY <1>2, <2>4, <2>5, <2>6, <3>1, <3>2 DEF DmaIInv, MemoryInv
    <2>8. CASE work.by = "init" /\ mpool_create(r)
      <3>1. work.req = _dma_mem_size /\ work.req >= 2 * LINE /\ work.req # 0
        BY <2>8 DEF SegmentFound, DmaIInv, MemoryInv, SizeKnown, Assembly, DmaType, Segment
      <3>2. /\ IInv' /\ pool' # NULL
            /\ r.addr <= node'[head].address /\ node'[tail].address <= r.addr + r.size
        BY <1>3, <2>2, <2>8, <3>1, CreateInv DEF DmaIInv
      <3>3. node'[tail].address \in Int
        BY <3>2, NodeFacts DEF IInv, TypeOK
      <3>4. seg.begin <= node'[head].address /\ node'[tail].address <= seg.end
        BY <1>3, <2>1, <2>2, <3>2, <3>3
      <3>5. PoolInSegment' /\ SizeKnown'
        BY <1>1, <1>2, <1>5, <3>1, <3>4 DEF DmaIInv, MemoryInv, PoolInSegment, SizeKnown
      <3> QED
        BY <1>2, <2>4, <2>5, <2>6, <3>2, <3>5 DEF DmaIInv, MemoryInv
    <2> QED
      BY <2>3, <2>7, <2>8
  <1> QED
    BY <1>4, <1>5 DEF SegmentFound

-----------------------------------------------------------------------------
(* What happens while no segment is assembled.                             *)
LEMMA IdleWork ==
    ASSUME DmaIInv, UNCHANGED <<work, tag, run>>, loaded' \/ work.pc = "idle"
    PROVE  /\ work' \in Segment /\ tag' \in [Memory -> 0 .. 3] /\ run' \in Locals
           /\ Got' = Got /\ Assembly' /\ Finding' /\ Growing'
  <1>1. Got' = Got
    BY DEF Got
  <1>2. work' \in Segment /\ tag' \in [Memory -> 0 .. 3] /\ run' \in Locals
    BY DEF DmaIInv, DmaType
  <1>3. Assembly'
    BY <1>1 DEF DmaIInv, Assembly
  <1>4. Finding' /\ Growing'
    BY <1>1 DEF DmaIInv, Finding, Growing, DoneApart, DoneShort, Done, Largest, RunOK, Current
  <1> QED
    BY <1>1, <1>2, <1>3, <1>4

LEMMA NewWork ==
    ASSUME DmaIInv, work.pc = "idle", UNCHANGED <<tag, run>>, loaded',
           NEW size \in Nat, size >= 1, NEW by \in {"init", "info", "salloc"},
           SegmentAlloc(size, by)
    PROVE  /\ work' \in Segment /\ tag' \in [Memory -> 0 .. 3] /\ run' \in Locals
           /\ Got' = {} /\ Got = {} /\ work'.by = by /\ work'.req = size
           /\ Assembly' /\ Finding' /\ Growing'
  <1> DEFINE n == size \div DMA_BLOCK_SIZE
             todo == IF n > blk_cnt_max THEN 0 ELSE n
  <1>1. n \in Int /\ todo \in Int
    BY BlockAssumption
  <1>2. work' = [NoWork EXCEPT !.pc = "first", !.by = by, !.req = size, !.todo = todo]
    BY DEF SegmentAlloc
  <1> HIDE DEF n, todo
  <1>3. work' = [pc |-> "first", by |-> by, req |-> size, todo |-> todo,
                 blks |-> <<>>, size |-> 0, begin |-> 0]
    BY <1>2 DEF NoWork
  <1>4. work' \in Segment
    BY <1>1, <1>3 DEF Segment, Phases
  <1>5. Got' = {} /\ Got = {}
    BY <1>3 DEF Got, DmaIInv, Assembly, NoWork
  <1>6. Run(0, 0 + 0) = {}
    BY DEF Run
  <1>7. Assembly' /\ Finding' /\ Growing'
    BY <1>3, <1>5, <1>6, BlockAssumption DEF Assembly, Finding, Growing
  <1> QED
    BY <1>3, <1>4, <1>5, <1>7 DEF DmaIInv, DmaType

LEMMA AllocMpoolInv ==
    ASSUME DmaIInv, work.pc = "idle", loaded', NEW size \in Nat, size >= 2 * LINE,
           NEW by \in {"init", "info"}, _alloc_mpool(size, by),
           UNCHANGED <<pages, reserved, tag, run, _dma_seg, _use_himem>>
    PROVE  DmaIInv'
  <1>1. size >= 1 /\ size # 0
    BY LineAssumption
  <1>2. work.by = "none"
    BY DEF DmaIInv, Assembly, NoWork
  <1>3. CASE /\ ~_use_himem /\ SegmentAlloc(size, by)
             /\ _dma_mem_size' = size /\ UNCHANGED <<_dma_vbase, vars>>
    <2>1. /\ work' \in Segment /\ tag' \in [Memory -> 0 .. 3] /\ run' \in Locals
          /\ Got' = {} /\ Got = {} /\ work'.by = by /\ work'.req = size
          /\ Assembly' /\ Finding' /\ Growing'
      BY <1>1, <1>3, NewWork
    <2>2. IInv'
      BY <1>3, StutterInv DEF DmaIInv
    <2>3. DmaType'
      BY <1>3, <2>1 DEF DmaIInv, DmaType
    <2>4. Parted' /\ SegmentsApart'
      BY <2>1 DEF DmaIInv, MemoryInv, Parted, SegmentsApart
    <2>5. PoolInSegment' /\ SizeKnown'
      BY <1>1, <1>3, <2>1 DEF DmaIInv, MemoryInv, PoolInSegment, SizeKnown, vars
    <2> QED
      BY <2>1, <2>2, <2>3, <2>4, <2>5 DEF DmaIInv, MemoryInv
  <1>4. ASSUME _use_himem, UNCHANGED work, IInv', _dma_mem_size' \in Nat,
               _dma_mem_size' >= 2 * LINE
        PROVE  DmaIInv'
    <2>1. /\ work' \in Segment /\ tag' \in [Memory -> 0 .. 3] /\ run' \in Locals
          /\ Got' = Got /\ Assembly' /\ Finding' /\ Growing'
      BY <1>4, IdleWork
    <2>2. DmaType'
      BY <1>4, <2>1 DEF DmaIInv, DmaType
    <2>3. Parted' /\ SegmentsApart'
      BY <2>1 DEF DmaIInv, MemoryInv, Parted, SegmentsApart
    <2>4. PoolInSegment'
      BY <1>4 DEF PoolInSegment
    <2>5. SizeKnown'
      BY <1>2, <1>4, LineAssumption DEF SizeKnown
    <2> QED
      BY <1>4, <2>1, <2>2, <2>3, <2>4, <2>5 DEF DmaIInv, MemoryInv
  <1>5. CASE /\ _use_himem /\ UNCHANGED work
             /\ \E r \in Ranges :
                    /\ _dma_vbase' = r /\ _dma_mem_size' = r.size
                    /\ IF by = "init" THEN mpool_create(r) ELSE UNCHANGED vars
    <2>1. PICK r \in Ranges : /\ _dma_mem_size' = r.size
                              /\ mpool_create(r) \/ UNCHANGED vars
      BY <1>5
    <2>2. r.addr \in Nat /\ r.size \in Nat /\ r.size >= 2 * LINE
      BY SizeAssumption
    <2>3. IInv'
      BY <2>1, <2>2, CreateInv, StutterInv DEF DmaIInv
    <2> QED
      BY <1>4, <1>5, <2>1, <2>2, <2>3
  <1>6. CASE _use_himem /\ _dma_mem_size' = size /\ UNCHANGED <<work, _dma_vbase, vars>>
    <2>1. IInv'
      BY <1>6, StutterInv DEF DmaIInv
    <2> QED
      BY <1>4, <1>6, <2>1
  <1> QED
    BY <1>3, <1>5, <1>6 DEF _alloc_mpool

LEMMA StillInv == DmaIInv /\ UNCHANGED <<memvars, vars>> => DmaIInv'
  <1> SUFFICES ASSUME DmaIInv, UNCHANGED <<memvars, vars>> PROVE DmaIInv'
    OBVIOUS
  <1>1. /\ UNCHANGED <<pages, reserved, work, tag, run, _dma_seg, _dma_vbase, _dma_mem_size,
                       _use_himem, loaded>>
        /\ UNCHANGED vars
    BY DEF memvars
  <1>2. IInv'
    BY <1>1, StutterInv DEF DmaIInv
  <1>3. /\ work' \in Segment /\ tag' \in [Memory -> 0 .. 3] /\ run' \in Locals
        /\ Got' = Got /\ Assembly' /\ Finding' /\ Growing'
    <2>1. loaded' \/ work.pc = "idle"
      BY <1>1 DEF DmaIInv, Assembly
    <2> QED
      BY <1>1, <2>1, IdleWork
  <1>4. DmaType'
    BY <1>1, <1>3 DEF DmaIInv, DmaType
  <1>5. MemoryInv'
    BY <1>1, <1>3
       DEF DmaIInv, MemoryInv, Parted, SegmentsApart, PoolInSegment, SizeKnown, vars
  <1> QED
    BY <1>2, <1>3, <1>4, <1>5 DEF DmaIInv

LEMMA DmaInitStepInv == DmaIInv /\ _dma_init => DmaIInv'
  <1> SUFFICES ASSUME DmaIInv, _dma_init PROVE DmaIInv'
    OBVIOUS
  <1>1. /\ work.pc = "idle" /\ loaded' /\ _dma_mem_size \in Nat
        /\ UNCHANGED <<pages, reserved, tag, run, _dma_seg, _use_himem>>
    BY DEF _dma_init, DmaIInv, Assembly, DmaType
  <1>2. CASE _dma_mem_size = 0
    <2>1. UNCHANGED <<work, _dma_vbase, _dma_mem_size, vars>>
      BY <1>2 DEF _dma_init
    <2>2. IInv'
      BY <2>1, StutterInv DEF DmaIInv
    <2>3. /\ work' \in Segment /\ tag' \in [Memory -> 0 .. 3] /\ run' \in Locals
          /\ Got' = Got /\ Assembly' /\ Finding' /\ Growing'
      BY <1>1, <2>1, IdleWork
    <2>4. DmaType'
      BY <1>1, <2>1, <2>3 DEF DmaIInv, DmaType
    <2>5. MemoryInv'
      BY <1>1, <2>1, <2>3
         DEF DmaIInv, MemoryInv, Parted, SegmentsApart, PoolInSegment, SizeKnown, vars
    <2> QED
      BY <2>2, <2>3, <2>4, <2>5 DEF DmaIInv
  <1>3. CASE _dma_mem_size # 0
    <2>1. _alloc_mpool(_dma_mem_size, "init") /\ _dma_mem_size >= 2 * LINE
      BY <1>3 DEF _dma_init, DmaIInv, MemoryInv, SizeKnown
    <2> QED
      BY <1>1, <2>1, AllocMpoolInv
  <1> QED
    BY <1>2, <1>3

LEMMA GetDmaInfoInv == DmaIInv /\ lkbde_get_dma_info => DmaIInv'
  <1> SUFFICES ASSUME DmaIInv, lkbde_get_dma_info PROVE DmaIInv'
    OBVIOUS
  <1> DEFINE size == IF _dma_mem_size = 0 THEN DMA_MEM_DEFAULT ELSE _dma_mem_size
  <1>1. /\ work.pc = "idle" /\ loaded' /\ _alloc_mpool(size, "info")
        /\ UNCHANGED <<pages, reserved, tag, run, _dma_seg, _use_himem>>
    BY DEF lkbde_get_dma_info
  <1>2. size \in Nat /\ size >= 2 * LINE
    BY DmaSizeAssumption DEF DmaIInv, MemoryInv, SizeKnown, DmaType
  <1> HIDE DEF size
  <1> QED
    BY <1>1, <1>2, AllocMpoolInv

LEMMA SallocInv ==
    ASSUME DmaIInv, NEW size \in Sizes \cup SegSizes, _salloc(size)
    PROVE  DmaIInv'
  <1>1. /\ work.pc = "idle" /\ loaded'
        /\ UNCHANGED <<pages, reserved, tag, run, _dma_seg, _dma_vbase, _dma_mem_size,
                       _use_himem, loaded>>
    BY DEF _salloc
  <1>2. CASE mpool_alloc(size) /\ UNCHANGED work
    <2>1. size \in Int
      BY SizeAssumption, DmaSizeAssumption
    <2>2. IInv' /\ SamePool
      BY <1>2, <2>1, AllocInv, AllocSamePool DEF DmaIInv
    <2>3. /\ work' \in Segment /\ tag' \in [Memory -> 0 .. 3] /\ run' \in Locals
          /\ Got' = Got /\ Assembly' /\ Finding' /\ Growing'
      BY <1>1, <1>2, IdleWork
    <2>4. DmaType'
      BY <1>1, <2>3 DEF DmaIInv, DmaType
    <2>5. Parted' /\ SegmentsApart'
      BY <1>1, <2>3 DEF DmaIInv, MemoryInv, Parted, SegmentsApart
    <2>6. PoolInSegment' /\ SizeKnown'
      BY <1>1, <1>2, <2>2 DEF DmaIInv, MemoryInv, PoolInSegment, SizeKnown, SamePool
    <2> QED
      BY <2>2, <2>3, <2>4, <2>5, <2>6 DEF DmaIInv, MemoryInv
  <1>3. CASE size \in SegSizes /\ SegmentAlloc(size, "salloc") /\ UNCHANGED vars
    <2>1. size \in Nat /\ size >= 1
      BY <1>3, DmaSizeAssumption
    <2>2. /\ work' \in Segment /\ tag' \in [Memory -> 0 .. 3] /\ run' \in Locals
          /\ Got' = {} /\ Got = {} /\ work'.by = "salloc" /\ work'.req = size
          /\ Assembly' /\ Finding' /\ Growing'
      BY <1>1, <1>3, <2>1, NewWork
    <2>3. IInv'
      BY <1>3, StutterInv DEF DmaIInv
    <2>4. DmaType'
      BY <1>1, <2>2 DEF DmaIInv, DmaType
    <2>5. Parted' /\ SegmentsApart'
      BY <1>1, <2>2 DEF DmaIInv, MemoryInv, Parted, SegmentsApart
    <2>6. PoolInSegment' /\ SizeKnown'
      BY <1>1, <1>3, <2>2 DEF DmaIInv, MemoryInv, PoolInSegment, SizeKnown, vars
    <2> QED
      BY <2>2, <2>3, <2>4, <2>5, <2>6 DEF DmaIInv, MemoryInv
  <1> QED
    BY <1>2, <1>3 DEF _salloc

LEMMA SfreeInv == DmaIInv /\ _sfree => DmaIInv'
  <1> SUFFICES ASSUME DmaIInv, _sfree PROVE DmaIInv'
    OBVIOUS
  <1>1. /\ work.pc = "idle"
        /\ UNCHANGED <<work, tag, run, _dma_vbase, _dma_mem_size, _use_himem, loaded>>
    BY DEF _sfree
  <1>2. /\ work' \in Segment /\ tag' \in [Memory -> 0 .. 3] /\ run' \in Locals
        /\ Got' = Got /\ Assembly' /\ Finding' /\ Growing'
    BY <1>1, IdleWork
  <1>3. CASE /\ \E n \in Blocks : mpool_free(node[n].address)
             /\ UNCHANGED <<pages, reserved, _dma_seg>>
    <2>1. IInv' /\ SamePool
      BY <1>3, FreeInv, FreeSamePool DEF DmaIInv
    <2>2. DmaType'
      BY <1>1, <1>2, <1>3 DEF DmaIInv, DmaType
    <2>3. Parted' /\ SegmentsApart'
      BY <1>2, <1>3 DEF DmaIInv, MemoryInv, Parted, SegmentsApart
    <2>4. PoolInSegment' /\ SizeKnown'
      BY <1>1, <1>3, <2>1 DEF DmaIInv, MemoryInv, PoolInSegment, SizeKnown, SamePool
    <2> QED
      BY <1>2, <2>1, <2>2, <2>3, <2>4 DEF DmaIInv, MemoryInv
  <1>4. CASE _dma_mem_size = 0 /\ (\E seg \in _dma_seg : _pgfree(seg)) /\ UNCHANGED vars
    <2>1. PICK seg \in _dma_seg :
             /\ pages' = pages \cup seg.blks
             /\ reserved' = reserved \ seg.blks
             /\ _dma_seg' = _dma_seg \ {seg}
      BY <1>4 DEF _pgfree
    <2>2. IInv'
      BY <1>4, StutterInv DEF DmaIInv
    <2>3. DmaType'
      BY <1>1, <1>2, <2>1 DEF DmaIInv, DmaType
    <2>4. seg.blks \subseteq reserved
      BY DEF DmaIInv, MemoryInv, SegmentsApart
    <2>5. Parted'
      BY <1>2, <2>1, <2>4 DEF DmaIInv, MemoryInv, Parted
    <2>6. SegmentsApart'
      <3>1. reserved' = UNION {s.blks : s \in _dma_seg'}
        BY <2>1 DEF DmaIInv, MemoryInv, SegmentsApart
      <3>2. \A s \in _dma_seg' : /\ s.blks = Run(s.begin, s.end)
                                 /\ \A t \in _dma_seg' \ {s} : s.blks \cap t.blks = {}
        BY <2>1 DEF DmaIInv, MemoryInv, SegmentsApart
      <3> QED
        BY <3>1, <3>2 DEF SegmentsApart
    <2>7. PoolInSegment' /\ SizeKnown'
      BY <1>1, <1>4 DEF DmaIInv, MemoryInv, PoolInSegment, SizeKnown, vars
    <2> QED
      BY <1>2, <2>2, <2>3, <2>5, <2>6, <2>7 DEF DmaIInv, MemoryInv
  <1> QED
    BY <1>3, <1>4 DEF _sfree

LEMMA CleanupInv == DmaIInv /\ _dma_cleanup => DmaIInv'
  <1> SUFFICES ASSUME DmaIInv, _dma_cleanup PROVE DmaIInv'
    OBVIOUS
  <1>1. work.pc = "idle" /\ UNCHANGED <<work, tag, run, _dma_mem_size, _use_himem>>
    BY DEF _dma_cleanup
  <1>2. /\ work' \in Segment /\ tag' \in [Memory -> 0 .. 3] /\ run' \in Locals
        /\ Got' = Got /\ Assembly' /\ Finding' /\ Growing'
    BY <1>1, IdleWork
  <1>3. CASE _dma_vbase = NULL
    <2>1. /\ UNCHANGED <<pages, reserved, _dma_seg, vars>>
          /\ _dma_vbase' = NULL /\ loaded' = FALSE
      BY <1>3 DEF _dma_cleanup
    <2>2. IInv'
      BY <2>1, StutterInv DEF DmaIInv
    <2>3. DmaType'
      BY <1>1, <1>2, <2>1 DEF DmaIInv, DmaType
    <2>4. Parted' /\ SegmentsApart'
      BY <1>1, <1>2, <2>1 DEF DmaIInv, MemoryInv, Parted, SegmentsApart
    <2>5. PoolInSegment' /\ SizeKnown'
      BY <1>1, <2>1 DEF DmaIInv, MemoryInv, PoolInSegment, SizeKnown, vars
    <2> QED
      BY <1>2, <2>2, <2>3, <2>4, <2>5 DEF DmaIInv, MemoryInv
  <1>4. CASE _dma_vbase # NULL
    <2>1. /\ pages' = Memory /\ reserved' = {} /\ _dma_seg' = {}
          /\ _dma_vbase' = NULL /\ loaded' = FALSE
      BY <1>4 DEF _dma_cleanup
    <2>2. IInv' /\ pool' = NULL
      <3>1. CASE pool = NULL
        BY <1>4, <3>1, StutterInv DEF _dma_cleanup, DmaIInv, vars
      <3>2. CASE pool # NULL
        BY <1>4, <3>2, DestroyInv DEF _dma_cleanup, DmaIInv, mpool_destroy
      <3> QED
        BY <3>1, <3>2
    <2>3. Got = {}
      BY <1>1 DEF DmaIInv, Assembly, NoWork, Got
    <2>4. DmaType'
      BY <1>1, <1>2, <2>1 DEF DmaIInv, DmaType
    <2>5. Parted' /\ SegmentsApart'
      BY <1>1, <1>2, <2>1, <2>3 DEF Parted, SegmentsApart
    <2>6. PoolInSegment' /\ SizeKnown'
      BY <1>1, <2>1, <2>2 DEF DmaIInv, MemoryInv, PoolInSegment, SizeKnown
    <2> QED
      BY <1>2, <2>2, <2>4, <2>5, <2>6 DEF DmaIInv, MemoryInv
  <1> QED
    BY <1>3, <1>4

LEMMA DmaInvariance == DmaSpec => []DmaIInv
  <1>1. DmaIInv /\ [DmaNext]_<<memvars, vars>> => DmaIInv'
    <2> SUFFICES ASSUME DmaIInv, [DmaNext]_<<memvars, vars>> PROVE DmaIInv'
      OBVIOUS
    <2>1. CASE _dma_init
      BY <2>1, DmaInitStepInv
    <2>2. CASE lkbde_get_dma_info
      BY <2>2, GetDmaInfoInv
    <2>3. CASE GetBlock \/ NoBlock \/ WantMore
      BY <2>3, GetBlockInv, NoBlockInv, WantMoreInv
    <2>4. CASE SegmentFound \/ SegmentTooShort
      BY <2>4, SegmentFoundInv, SegmentTooShortInv
    <2>5. CASE FindRun \/ FirstBlock \/ AdjacentBlock
      BY <2>5, FindRunInv, FirstBlockInv, AdjacentBlockInv
    <2>6. CASE NextPass \/ RunEnds \/ RunFound
      BY <2>6, NextPassInv, RunEndsInv, RunFoundInv
    <2>7. CASE \E size \in Sizes \cup SegSizes : _salloc(size)
      BY <2>7, SallocInv
    <2>8. CASE _sfree \/ _dma_cleanup
      BY <2>8, SfreeInv, CleanupInv
    <2>9. CASE UNCHANGED <<memvars, vars>>
      BY <2>9, StillInv
    <2> QED
      BY <2>1, <2>2, <2>3, <2>4, <2>5, <2>6, <2>7, <2>8, <2>9 DEF DmaNext
  <1> QED
    BY DmaInitInv, <1>1, PTL DEF DmaSpec

(* The variables of the DMA memory have their types, as those of the       *)
(* allocator in it have (linux_dma.c, mpool.c).                            *)
THEOREM DmaTypeCorrect == DmaSpec => [](TypeOK /\ DmaType)
  <1>1. DmaIInv => TypeOK /\ DmaType
    BY DEF DmaIInv, IInv
  <1> QED
    BY <1>1, DmaInvariance, PTL

(* The assembly finds the longest run there is among the blocks it got, up *)
(* to what it needs, in whatever order the kernel gave them; and when the  *)
(* run is long enough, exactly its blocks are kept (_find_largest_segment).*)
THEOREM DmaLargestFound == DmaSpec => []LargestFound
  <1>1. DmaIInv => LargestFound
    <2> SUFFICES ASSUME DmaIInv, work.pc = "found" PROVE LargestFound
      BY DEF LargestFound
    <2>1. /\ Run(work.begin, work.begin + work.size) \subseteq Got
          /\ work.size < work.req + DMA_BLOCK_SIZE
      BY DEF DmaIInv, Assembly
    <2>2. CASE work.size < work.req
      <3>1. /\ DoneShort /\ \A a \in Got : tag[a] # 3 /\ tag[a] # 0
            /\ ~(work.size >= work.req)
        BY <2>2 DEF DmaIInv, Finding, DmaType, Segment
      <3>2. \A a \in Got : tag[a] \in 0 .. 3
        BY GotBlocks DEF DmaIInv, DmaType
      <3>3. \A a \in Got : Done(a)
        BY <3>1, <3>2 DEF Done
      <3> QED
        BY <2>1, <3>1, <3>3 DEF LargestFound, DoneShort
    <2>3. CASE work.size >= work.req
      BY <2>1, <2>3 DEF LargestFound, DmaIInv, Finding, DmaType, Segment
    <2> QED
      BY <2>2, <2>3 DEF DmaIInv, DmaType, Segment
  <1> QED
    BY <1>1, DmaInvariance, PTL

(* No memory is lost and none is used twice: each block belongs to the     *)
(* kernel, to one segment in use, which is what is reserved, or to the one *)
(* being assembled; and a pool lies in memory that the driver has.         *)
THEOREM DmaMemoryOwned == DmaSpec => []MemoryOwned
  <1>1. DmaIInv => MemoryOwned
    BY DEF DmaIInv, MemoryInv, Parted, SegmentsApart, PoolInSegment, MemoryOwned
  <1> QED
    BY <1>1, DmaInvariance, PTL

(* In the driver's own pool, allocations neither overlap nor leave it,     *)
(* wherever the memory came from and whatever sizes were asked for.        *)
THEOREM DmaBlocksDisjoint == DmaSpec => []BlocksDisjoint
  <1>1. DmaIInv => BlocksDisjoint
    BY DEF DmaIInv, IInv
  <1> QED
    BY <1>1, DmaInvariance, PTL

(* And an allocation finds a gap in it if there is any.                    *)
THEOREM DmaFindsGap == DmaSpec => []FindsGap
  <1>1. DmaIInv => FindsGap
    BY GapsFound DEF DmaIInv
  <1> QED
    BY <1>1, DmaInvariance, PTL

(* What a step of DmaPool does to the pool is a step of Mpool.             *)
LEMMA PoolSteps ==
    ASSUME [DmaNext]_<<memvars, vars>>
    PROVE  \/ UNCHANGED vars
           \/ \E r \in {[addr |-> work.begin, size |-> work.req]} \cup Ranges : mpool_create(r)
           \/ \E size \in Int : mpool_alloc(size)
           \/ \E n \in Blocks : mpool_free(node[n].address)
           \/ mpool_destroy
  <1>1. CASE _dma_init
    BY <1>1 DEF _dma_init, _alloc_mpool, vars
  <1>2. CASE lkbde_get_dma_info
    BY <1>2 DEF lkbde_get_dma_info, _alloc_mpool, vars
  <1>3. CASE GetBlock \/ NoBlock \/ WantMore \/ SegmentTooShort
    BY <1>3 DEF GetBlock, NoBlock, WantMore, SegmentTooShort, others
  <1>4. CASE SegmentFound
    BY <1>4 DEF SegmentFound, CreatePool, vars
  <1>5. CASE FindRun \/ FirstBlock \/ AdjacentBlock \/ NextPass \/ RunEnds \/ RunFound
    BY <1>5 DEF FindRun, FirstBlock, AdjacentBlock, NextPass, RunEnds, RunFound, others
  <1>6. CASE \E size \in Sizes \cup SegSizes : _salloc(size)
    <2>1. PICK size \in Sizes \cup SegSizes : mpool_alloc(size) \/ UNCHANGED vars
      BY <1>6 DEF _salloc
    <2>2. size \in Int
      BY SizeAssumption, DmaSizeAssumption
    <2> QED
      BY <2>1, <2>2
  <1>7. CASE _sfree
    BY <1>7 DEF _sfree, vars
  <1>8. CASE _dma_cleanup
    BY <1>8 DEF _dma_cleanup, vars
  <1>9. CASE UNCHANGED <<memvars, vars>>
    BY <1>9
  <1> QED
    BY <1>1, <1>2, <1>3, <1>4, <1>5, <1>6, <1>7, <1>8, <1>9 DEF DmaNext

(* The driver's pool is a pool of memory as MemoryPool says, whether it    *)
(* lies in a segment that was assembled or in high memory.                 *)
THEOREM DmaImplementsPool == DmaSpec => ImplementsPool
  <1>1. DmaInit => Abstract!Init
    BY DEF DmaInit, Init, Blocks, Used, Nodes, Abstract!Init, Abstract!NoPool
  <1>2. DmaIInv /\ DmaIInv' /\ [DmaNext]_<<memvars, vars>> => [Abstract!Next]_Abstract!vars
    <2> SUFFICES ASSUME DmaIInv, DmaIInv', [DmaNext]_<<memvars, vars>>
                 PROVE  [Abstract!Next]_Abstract!vars
      OBVIOUS
    <2>1. IInv /\ IInv'
      BY DEF DmaIInv
    <2>2. CASE \E r \in {[addr |-> work.begin, size |-> work.req]} \cup Ranges : mpool_create(r)
      BY <2>1, <2>2, CreateImplements DEF Abstract!Next
    <2>3. CASE \E size \in Int : mpool_alloc(size)
      BY <2>1, <2>3, AllocImplements DEF Abstract!Next
    <2>4. CASE \E n \in Blocks : mpool_free(node[n].address)
      BY <2>1, <2>4, FreeImplements DEF Abstract!Next
    <2>5. CASE mpool_destroy
      BY <2>5, DestroyImplements
    <2>6. CASE UNCHANGED vars
      BY <2>6, StutterImplements
    <2> QED
      BY <2>2, <2>3, <2>4, <2>5, <2>6, PoolSteps
  <1> QED
    BY <1>1, <1>2, DmaInvariance, PTL DEF DmaSpec, ImplementsPool, Abstract!Spec

=============================================================================
