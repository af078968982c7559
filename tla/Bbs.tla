---------------------------------- MODULE Bbs ----------------------------------
(***************************************************************************)
(* BranchAndBoundMatcher (prism_loc_core/bbs.cpp): one search, from the    *)
(* pyramid its constructor builds to the modes it keeps.  Lengths are      *)
(* cells of the map, headings multiples of angular_step from that of the   *)
(* centre.  The cells a scan hits at a heading are an input, rotation and  *)
(* subsampling being done before the search; a score is an integer.        *)
(*                                                                         *)
(* branch() is a stack of candidate sets: std::sort orders candidates of   *)
(* equal bound as it likes, so that the loop goes on with any best one.    *)
(***************************************************************************)
EXTENDS Integers, FiniteSetsExt, SequencesExt

CONSTANTS
  Width, Height, \* size of the map
  Depth,         \* max_depth
  Circle,        \* angular steps in a full turn
  Grids,         \* pyramid_[0] of the maps: a score for every cell
  Blockings,     \* their occupied cells
  Endpoints,     \* ep_cells: for every heading searched, the cells hit at the centre
  Searches       \* arguments of search()

Cells == (0..(Width - 1)) \X (0..(Height - 1))
Heads == UNION {DOMAIN e : e \in Endpoints}

ASSUME BbsParams ==
  /\ Width \in Nat \ {0} /\ Height \in Nat \ {0} /\ Depth \in Nat /\ Circle \in Nat \ {0}
  /\ Grids \subseteq [Cells -> Nat]
  /\ Blockings \subseteq SUBSET Cells
  /\ \A e \in Endpoints : /\ DOMAIN e \subseteq Int /\ IsFiniteSet(DOMAIN e)
                          /\ \A t \in DOMAIN e : e[t] \in Seq(Int \X Int)
  /\ Searches \subseteq [center : Int \X Int, lx : Nat, ly : Nat, k : Nat \ {0},
                         nms_xy : Nat, nms_yaw : Nat, prefer_center : BOOLEAN]

VARIABLES
  pyramid, \* pyramid_, a function of the level
  blocked, \* blocked_
  ep,      \* the endpoints of the scan
  args,    \* the arguments of this search
  open,    \* the candidate lists of the calls of branch() in progress, innermost first
  kept     \* the modes kept, best first

vars == <<pyramid, blocked, ep, args, open, kept>>
-----------------------------------------------------------------------------
(* The constructor.                                                        *)

\* The maximum of every cell and its neighbours at a distance.
Pooled(f, off) ==
  [c \in Cells |-> Max({f[d] : d \in Cells \cap ({c[1], c[1] + off} \X {c[2], c[2] + off})})]

\* Every level doubles the block a cell is the maximum of.
PyramidOf(g) ==
  LET P[h \in 0..Depth] == IF h = 0 THEN g ELSE Pooled(P[h - 1], 2 ^ (h - 1))
  IN  P
-----------------------------------------------------------------------------
(* scoreLevel(): the sum over the endpoints, moved by offset (x, y), of the *)
(* score of a cell or, at a coarser level, of the block of offsets.        *)

Inside(n, size) == 0 <= n /\ n < size

\* The part of the axis a block starting at n covers is not empty.
Overlaps(n, size, level) == n + 2 ^ level > 0 /\ n < size

Clamped(n) == IF n < 0 THEN 0 ELSE n

\* Mutant of CellScore: coarse levels drop cells off the map as leaves do.
CellScoreDropOffMap(x, y, level) ==
  IF Inside(x, Width) /\ Inside(y, Height) THEN pyramid[level][<<x, y>>] ELSE 0

CellScore(x, y, level) ==
  IF level = 0
  THEN IF Inside(x, Width) /\ Inside(y, Height) THEN pyramid[0][<<x, y>>] ELSE 0
  ELSE IF Overlaps(x, Width, level) /\ Overlaps(y, Height, level)
       THEN pyramid[level][<<Clamped(x), Clamped(y)>>] ELSE 0

ScoreLevel(t, x, y, level) ==
  LET s[i \in 0..Len(ep[t])] ==
        IF i = 0 THEN 0
        ELSE s[i - 1] + CellScore(ep[t][i][1] + x, ep[t][i][2] + y, level)
  IN  s[Len(ep[t])]

\* feasible(): the robot would stand in a free cell of the map.
Feasible(x, y) ==
  LET c == <<args.center[1] + x, args.center[2] + y>> IN c \in Cells \ blocked
-----------------------------------------------------------------------------
(* The modes kept.  A leaf is a heading and an offset.                     *)

LeafOf(c) == [t |-> c.t, x |-> c.x, y |-> c.y]

\* K-th kept score, -1 while there are fewer.
Threshold == IF Len(kept) >= args.k THEN kept[Len(kept)].score ELSE -1

TieBreak == args.prefer_center /\ args.k = 1

CentreDist(l) == l.x * l.x + l.y * l.y + l.t * l.t

Improves(c) ==
  \/ c.upper > Threshold
  \/ /\ TieBreak /\ kept # <<>> /\ c.upper = Threshold
     /\ CentreDist(LeafOf(c)) < CentreDist(kept[1].leaf)

YawApart(a, b) == LET d == (a - b) % Circle IN IF 2 * d <= Circle THEN d ELSE Circle - d

Near(l, m) ==
  /\ (l.x - m.x) * (l.x - m.x) + (l.y - m.y) * (l.y - m.y) <= args.nms_xy * args.nms_xy
  /\ YawApart(l.t, m.t) <= args.nms_yaw

FirstOf(s, n) == IF Len(s) <= n THEN s ELSE SubSeq(s, 1, n)

\* The modes kept that are no neighbours of a leaf, in their order.
Others(leaf) ==
  LET next[i \in 0..Len(kept)] ==
        IF i = 0 THEN <<>>
        ELSE IF Near(kept[i].leaf, leaf) THEN next[i - 1] ELSE Append(next[i - 1], kept[i])
  IN  next[Len(kept)]

\* A mode goes in before the first one it beats, and the worst of too many goes.
Joined(modes, mode) ==
  LET place == Min({i \in 1..(Len(modes) + 1) :
                      i <= Len(modes) => modes[i].score < mode.score})
  IN  FirstOf(InsertAt(modes, place, mode), args.k)

\* Mutant of Accepted: the neighbours a leaf beats stay.
AcceptedBeside(c) ==
  LET mode == [leaf |-> LeafOf(c), score |-> c.upper]
  IN  IF args.k = 1 THEN <<mode>> ELSE Joined(kept, mode)

\* accept(): the modes with a leaf that improves them.  A neighbour as good
\* dominates it, those it beats give way.
Accepted(c) ==
  LET mode == [leaf |-> LeafOf(c), score |-> c.upper]
  IN  IF args.k = 1 THEN <<mode>>
      ELSE IF \E i \in DOMAIN kept : /\ Near(kept[i].leaf, mode.leaf)
                                     /\ kept[i].score >= c.upper THEN kept
      ELSE Joined(Others(mode.leaf), mode)
-----------------------------------------------------------------------------
(* branch()                                                                *)

Cand(t, x, y, depth) ==
  [t |-> t, x |-> x, y |-> y, depth |-> depth, upper |-> ScoreLevel(t, x, y, depth)]

\* The offsets -l, -l + block, ... up to l.
Tiled(l, block) == {n \in -l..l : (n + l) % block = 0}

Roots == {Cand(t, x, y, Depth) : t \in DOMAIN ep, x \in Tiled(args.lx, 2 ^ Depth),
                                 y \in Tiled(args.ly, 2 ^ Depth)}

Children(c) ==
  LET half == 2 ^ (c.depth - 1)
  IN  {Cand(c.t, c.x + d[1], c.y + d[2], c.depth - 1) :
         d \in {e \in {0, half} \X {0, half} : c.x + e[1] <= args.lx /\ c.y + e[2] <= args.ly}}

\* Mutant of Hopeless: prunes ties also where they are to be broken.
HopelessOnTie(c) == c.upper <= Threshold

\* No leaf below c can change what is kept.
Hopeless(c) == c.upper < Threshold \/ (c.upper = Threshold /\ ~TieBreak)

Best(frame) == {c \in frame : \A d \in frame : d.upper <= c.upper}

Init ==
  /\ \E g \in Grids : pyramid = PyramidOf(g)
  /\ blocked \in Blockings
  /\ ep \in Endpoints
  /\ args \in Searches
  /\ open = <<Roots>>
  /\ kept = <<>>

\* The loop over the candidates ends, the best of those left being hopeless.
Return ==
  /\ open # <<>>
  /\ \A c \in Best(open[1]) : Hopeless(c)
  /\ open' = Tail(open)
  /\ UNCHANGED <<pyramid, blocked, ep, args, kept>>

Leaf ==
  /\ open # <<>>
  /\ \E c \in Best(open[1]) :
       /\ ~Hopeless(c) /\ c.depth = 0
       /\ open' = <<open[1] \ {c}>> \o Tail(open)
       /\ kept' = IF Feasible(c.x, c.y) /\ Improves(c) THEN Accepted(c) ELSE kept
  /\ UNCHANGED <<pyramid, blocked, ep, args>>

Descend ==
  /\ open # <<>>
  /\ \E c \in Best(open[1]) :
       /\ ~Hopeless(c) /\ c.depth > 0
       /\ open' = <<Children(c), open[1] \ {c}>> \o Tail(open)
  /\ UNCHANGED <<pyramid, blocked, ep, args, kept>>

Next == Return \/ Leaf \/ Descend

Spec == Init /\ [][Next]_vars
-----------------------------------------------------------------------------
(* What an exhaustive search over the same window looks at.                *)

Window == {[t |-> t, x |-> x, y |-> y] : t \in DOMAIN ep, x \in -args.lx..args.lx,
                                         y \in -args.ly..args.ly}
Candidates == {l \in Window : Feasible(l.x, l.y)}
Score(l) == ScoreLevel(l.t, l.x, l.y, 0)

\* l is below candidate c.
Below(l, c) == /\ l.t = c.t
               /\ l.x \in c.x..(c.x + 2 ^ c.depth - 1)
               /\ l.y \in c.y..(c.y + 2 ^ c.depth - 1)

\* No search loses the best pose: at any time a feasible pose of the window that
\* scores more than every mode kept is below a candidate that is still open, so
\* that the first mode in the end is the maximum an exhaustive search finds,
\* whatever the map, the occupied cells and the endpoints off the map
\* (scoreLevel(), the prune in branch()).
BestFound ==
  \A l \in Candidates :
    \/ \E i \in DOMAIN open : \E c \in open[i] : Below(l, c)
    \/ kept # <<>> /\ Score(l) <= kept[1].score

\* Of the poses with the best score a search that prefers the centre returns one
\* that no other is nearer to the centre than (matchLocal(), tie_break).
NearestOfBest ==
  open = <<>> /\ TieBreak /\ kept # <<>> =>
    \A l \in Candidates : Score(l) = kept[1].score => CentreDist(kept[1].leaf) <= CentreDist(l)

\* The modes are what they claim: feasible poses with their exact scores, best
\* first, at most K, and no two of them neighbours (accept()).
ModesApart ==
  /\ Len(kept) <= args.k
  /\ \A i \in DOMAIN kept :
       /\ kept[i].leaf \in Candidates /\ kept[i].score = Score(kept[i].leaf)
       /\ \A j \in 1..(i - 1) : /\ kept[i].score <= kept[j].score
                                /\ ~Near(kept[i].leaf, kept[j].leaf)
================================================================================
