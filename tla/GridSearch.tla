----------------------------- MODULE GridSearch -----------------------------
(***************************************************************************)
(* Searches over the cells of a BinaryMatrix (Math/src/BinaryMatrix.cc):   *)
(* clusterGrowth floods a region cell by cell from a queue; cluster floods *)
(* the matrix itself; boundary and adjacentBit look at the neighbours of   *)
(* cells.  A matrix is the set of its cells that are one.                  *)
(***************************************************************************)
EXTENDS Integers, Sequences, FiniteSets, SequencesExt

CONSTANTS
  Rows,
  Columns,
  Given,       \* what the matrix given to an operation may hold
  Adjacencies, \* the adjacencies that boundary is asked for: 4, 8
  Radii        \* the radii of growInto

VARIABLES
  grid,    \* the matrix
  visited, \* the matrix that a flood fills; in cluster this is the grid
  own,     \* it is the grid
  cells,   \* the queue of the flood
  top,     \* whether it goes to 4 neighbours or to 8
  count,   \* the steps it took, in the end its result
  mat,     \* the matrix that boundary and growInto write to
  op       \* history: the operation, its argument, and the visited, or mat, it began with

searchVars == <<grid, visited, own, cells, top, count, mat, op>>

All == (0 .. Rows - 1) \X (0 .. Columns - 1)

ASSUME GridAssumption ==
  /\ Rows \in Nat /\ Columns \in Nat /\ Radii \subseteq Nat
  /\ Given \subseteq SUBSET All /\ Adjacencies \subseteq {4, 8}

Add(p, d) == <<p[1] + d[1], p[2] + d[2]>>

(* The order in which clusterGrowth goes round a cell. *)
Round == <<<<-1, 0>>, <<1, 0>>, <<0, -1>>, <<0, 1>>, <<1, 1>>, <<-1, 1>>, <<-1, -1>>, <<1, -1>>>>

Neighbours(p, n) == {Add(p, Round[i]) : i \in 1 .. n} \cap All

(* A neighbour of p, of four or of all eight, has the value v. *)
AdjacentBit(p, n, v) == \E q \in Neighbours(p, n) : q \in grid <=> v

SearchInit ==
  /\ grid \in SUBSET All
  /\ visited = {} /\ own = FALSE /\ cells = <<>> /\ top = 4 /\ count = 0
  /\ mat = {} /\ op = <<"none", <<>>, {}>>
-----------------------------------------------------------------------------
(* clusterGrowth and cluster *)

(* The seed is queued but not marked. *)
Begin(seed, n) ==
  /\ cells' = <<seed>> /\ top' = n /\ count' = 0
  /\ UNCHANGED <<grid, mat>>

(* clusterGrowth keeps what a visited of the right size holds. *)
ClusterGrowth ==
  \E seed \in All, n \in {4, 8}, w \in Given :
    Begin(seed, n) /\ visited' = w /\ own' = FALSE /\ op' = <<"flood", seed, w>>

Cluster ==
  \E seed \in All :
    Begin(seed, 4) /\ visited' = grid /\ own' = TRUE /\ op' = <<"flood", seed, grid>>

(* Mutant: the first row of the matrix is not looked at. *)
OpenInside(q) == q[1] > 0 /\ q \in All /\ q \notin visited /\ q \notin grid

Open(q) == q \in All /\ q \notin visited /\ q \notin grid

(* The open cells round p, in this order.                                  *)
OpenRound(p) ==
  LET found[i \in 0 .. top] ==
        IF i = 0 THEN <<>>
        ELSE IF Open(Add(p, Round[i])) THEN Append(found[i - 1], Add(p, Round[i]))
        ELSE found[i - 1]
  IN  found[top]

Advance(new, marked) ==
  /\ cells' = Tail(cells) \o new
  /\ visited' = visited \cup marked
  /\ grid' = IF own THEN grid \cup marked ELSE grid
  /\ count' = count + 1
  /\ UNCHANGED <<own, top, mat, op>>

(* Mutant: cells are marked when they are taken from the queue. *)
GrowMarkingLate == cells # <<>> /\ Advance(OpenRound(Head(cells)), {Head(cells)})

(* One step of clusterGrowth: the free cells round the first of the queue  *)
(* are marked and queued.                                                  *)
GrowCluster ==
  LET new == OpenRound(Head(cells))
  IN  cells # <<>> /\ Advance(new, ToSet(new))
-----------------------------------------------------------------------------
(* boundary and growInto *)

(* Mutant: the negated matrix is moved one column too far. *)
ShiftsTooFar(n) == {<<-1, 0>>, <<1, 0>>, <<0, -1>>, <<0, 2>>}

(* Where boundary moves the negated matrix; the last place it goes to with *)
(* eight neighbours is one it has been to, <<1, 1>>.                       *)
Shifts(n) ==
  {<<-1, 0>>, <<1, 0>>, <<0, -1>>, <<0, 1>>}
  \cup IF n = 4 THEN {} ELSE {<<-1, 1>>, <<1, 1>>, <<1, -1>>}

Boundary ==
  \E n \in Adjacencies :
    /\ mat' = {p \in grid : \E d \in Shifts(n) : Add(p, d) \in All \ grid}
    /\ op' = <<"boundary", n, {}>>
    /\ UNCHANGED <<grid, visited, own, cells, top, count>>

Apart(i, j) == IF i < j THEN j - i ELSE i - j

(* fillDisk: in each of radius rows up and down it fills cells to both     *)
(* sides, as many as the root of radius^2 - i^2, rounded.                  *)
Disk(p, radius) ==
  {q \in All : LET i == Apart(p[1], q[1]) j == Apart(p[2], q[2])
               IN  i < radius /\ (2 * j + 1) * (2 * j + 1) <= 4 * (radius * radius - i * i)}

(* Mutant: cells inside their region are left out. *)
GrownEdge(v, radius) ==
  UNION {Disk(p, radius) : p \in {q \in All : (q \in grid <=> v) /\ AdjacentBit(q, 4, ~v)}}

(* Only cells at an edge of their region grow, the others are set. *)
Grown(v, radius) ==
  UNION {IF AdjacentBit(p, 4, ~v) THEN Disk(p, radius) ELSE {p} :
           p \in {q \in All : q \in grid <=> v}}

(* A mat of the right size keeps what it holds. *)
GrowInto ==
  \E radius \in Radii, v \in BOOLEAN, w \in Given :
    /\ mat' = IF v THEN w \cup Grown(v, radius) ELSE w \ Grown(v, radius)
    /\ op' = <<"growInto", <<radius, v>>, w>>
    /\ UNCHANGED <<grid, visited, own, cells, top, count>>
-----------------------------------------------------------------------------
(* One operation a behaviour: any grid is one to begin with. *)
SearchNext ==
  \/ op[1] = "none" /\ (ClusterGrowth \/ Cluster \/ Boundary \/ GrowInto)
  \/ GrowCluster

SearchSpec == SearchInit /\ [][SearchNext]_searchVars
-----------------------------------------------------------------------------
Flood == op[1] = "flood"
Start == op[3]
Filled == visited \ Start

(* The cells a flood may go to; what it has filled counts as free.         *)
Free == All \ (Start \cup (grid \ visited))

Further(S) == S \cup {q \in Free : Neighbours(q, top) \cap S # {}}

(* The cells that free ones connect with the seed. *)
Reached ==
  LET reach[n \in 0 .. Rows * Columns] == IF n = 0 THEN {op[2]} ELSE Further(reach[n - 1])
  IN  reach[Rows * Columns]

(* A flood ends with just the cells filled that free cells connect with    *)
(* its seed: clusterGrowth "grows a cluster from a seed to fill a whole    *)
(* enclosed region" (BinaryMatrix.hh), and stops at walls of visited.  The *)
(* seed is filled from a cell beside it, or not at all.                    *)
RegionFilled ==
  Flood /\ cells = <<>> =>
    LET seed == op[2]
    IN  /\ Filled \ {seed} = (Reached \cap Free) \ {seed}
        /\ seed \in Filled <=> seed \in Free /\ Neighbours(seed, top) \cap Free # {}

(* A flood starts "by filling a seed" and "visited returns with 1 in every *)
(* cell in cells", of which the seed is the first (BinaryMatrix.hh).       *)
SeedFilled == Flood /\ cells = <<>> => op[2] \in grid \cup visited

(* No cell goes through the queue twice, but the seed, which is not marked *)
(* when it is queued, once more than it is filled.                         *)
QueuedOnce == Flood => count + Len(cells) = Cardinality(Filled) + 1

AtZero(n) == {p \in grid : AdjacentBit(p, n, FALSE)}

(* The boundary has cells that are one with a zero beside them, and with   *)
(* four neighbours all of these (boundary).                                *)
BoundaryAtZero ==
  op[1] = "boundary" => mat \subseteq AtZero(op[2]) /\ (op[2] = 4 => mat = AtZero(4))

(* Growing only the cells at an edge is growing all: growInto fills a disk *)
(* round every cell that has the value.                                    *)
DisksFilled ==
  op[1] = "growInto" =>
    LET radius == op[2][1] v == op[2][2]
        disks == UNION {Disk(p, radius) : p \in {q \in All : q \in grid <=> v}}
    IN  mat = IF v THEN Start \cup disks ELSE Start \ disks
=============================================================================
