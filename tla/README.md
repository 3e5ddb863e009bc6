# rm_tristripper: a TLA+ model, its checks and its proofs

rm_tristripper turns a list of triangles (vertex IDs, three per triangle) into
triangle strips. It first covers the triangles by short strips
("preprocessing") and then joins strips by "tunneling": along a path of edges
that are in turn no part of a strip and part of one, linked edges become
unlinked and the other way round, which leaves one strip less. A second, simple
algorithm builds the strips greedily. Everything is a sequential C library;
what is hard in it is not concurrency but state that is shared between phases,
packed into bits, changed tentatively and taken back.

## The system and its parts

| part | code | state it keeps | operations | must hold |
|---|---|---|---|---|
| entry point | `src/rm_tristripper.c` | the caller's configuration (it overwrites `max_count`) | `create_strips`, `dispose_strips` | the strips spell exactly the triangles of the input; the call returns |
| building the triangles | `src/rm_tristripper_tri.c:89` | the array of triangles, a hashmap of open edges | `build_tris` | neighbours stitched both ways; the map holds exactly the open sides |
| triangle record | `include/rm_tristripper_tri.h` | per triangle: neighbours and indices, vertices, flags, the link byte (current and saved links), the tunnel-state byte (a stack in base 4), tunnel index, list pointers | link, save, restore, push/select a tunnel state, list operations | bit fields never overlap; restore undoes save |
| adjacency lists | `tri.h:165-188`, `tri.c:196` | four lists of unstripped triangles by number of unstripped neighbours | order, set-stripped-and-propagate, next core | each unstripped triangle is in the list of its count |
| preprocessing | `src/rm_tristripper_ex.c:87-347` | links, endpoint flags, list of endpoints | isolated, pairs, stripify | a cover by paths with exactly its ends flagged and listed |
| tunneling | `rm_tristripper_ex.c:616-1104` | tunnel stack, visited flags, tunnel states, loop count, passes | dig, open, backtrack, cement, circle check, undo | a tunnel that stays joins two strips, anything else changes nothing; no tunnel is overlooked but those given up together with a circle; it ends |
| collecting | `rm_tristripper_ex.c:372-614` | the ID vector, orientation parity | collect_strip and its loop | every triangle spelled once, with its winding |
| simple stripifier | `src/rm_tristripper_simple.c` | the ID vector, adjacency lists | build_strip and its loop | as collecting |
| hashmap | `include/rm_hashmap.h` | buckets, collision vector, supply list, count, references to keys and values | init, update, get, remove, clear, dispose, resize, for_each | a dictionary; one reference per pair; no cell lost |
| vector | `include/rm_vec.h`, `src/rm_vec.c` | a block of the heap, count, capacity | init, dispose, unwrap, dup, ensure, trim, push, pop, set, clear | a sequence; capacity is what fits; one owner per block |
| verifier | `src/rm_tristripper_verifier.c` | a hashmap of the list's triangles with multiplicities, sums; per comparison an array of counters | init, verify, dispose | accepts exactly the strips that cover the list |
| statistics | `src/rm_tristripper_stats.c` | - | calculate | the costs are what a renderer is sent |
| helpers | file, log, memory, assert, type, macro | - | - | - |

How they interact: `create_strips` calls `build_tris`, which uses one hashmap;
then either the simple stripifier or `create_strips_ex`, which preprocesses,
tunnels and collects. A caller may then measure the strips (statistics), have
them compared with the list (verifier), and call again with the same
configuration record, which the call has changed. All of these share the array of triangle records.
Preprocessing and tunneling hand over through the links, the endpoint flags, the
list of endpoints and the number of strips, which are four separate pieces of
state that every phase updates separately. Collecting trusts all four.

There are no threads, no functions that call back into the library and no
persistence. The hard
behaviours are: tentative changes and their undo (cementing a tunnel that turns
out to close a circle), flags and list nodes that become stale, a depth-first
search whose stack, flags and per-triangle state have to agree at every
backtrack, bounds that meet (stack size, 16-bit index, loop limit, destination
count, incremental length), chains of a hashmap that are rebuilt in place,
and references and blocks of the heap that each need exactly one owner.
`PROJECT.json` lists them line by line as hazards, with the properties that
would catch each going wrong (the cost of growing a vector has none: it
is a sum over all pushes).

## The modules

| module | models | notes |
|---|---|---|
| `TriArray` | the triangle record | a triangle is its position in the array, null is 0; bytes of bits are sets of bit positions; the tunnel state is the number it is in C |
| `Mesh` | the result of `build_tris` | stated as a pairing of sides by their ranks on an edge, without the hashmap; the reference of `BuildTris`, and the meshes of the other runs |
| `BuildTris`, `BuildTrisProps` | `build_tris` | one action per triangle read, which resets its record first, per edge, and for the end; the array starts with garbage in every field |
| `BuildTrisProofs` | | its two invariants and their proofs |
| `Adjacency` | adjacency lists, choice of core triangles | shared by preprocessing and the simple stripifier |
| `Preproc`, `PreprocProps` | the three preprocessing algorithms | one action per triangle added to a strip |
| `PreprocInv`, `PreprocProofs` | | its inductive invariant and the proofs |
| `Tunneling`, `TunnelingProps` | tunneling | `pc` names the loop whose body runs next; one action per pass through a loop body, but three short loops over the tunnel are one step each (see Correspondence) |
| `TunnelingInv` | | the inductive invariants of `Tunneling`: of the search and the flip, of the circle check, and of what the search has left behind |
| `TriLemmas` | | facts about lists and the operators of `TriArray` that the proofs of preprocessing, of tunneling and of the session share |
| `TunnelingProofs` | | the proofs about `Tunneling`: searching, passes, flipping, circle check and undo; circles, the refinement, what is overlooked, and the theorems |
| `PathCover` | the abstract promise of tunneling | a step joins two paths of a path cover into one |
| `Output` | collecting the strips | one action per triangle walked |
| `Simple` | the simple stripifier | one action per triangle |
| `Tristripper`, `TristripperProps` | the whole call | composes all of the above over the same variables: its instances of the phases are instances of their proof modules, so that it has their theorems too |
| `Statistics` | the statistics | one operator |
| `Verifier`, `VerifierProps` | the verifier | one action per triangle counted and per triple of IDs compared |
| `VerifierInv`, `VerifierProofs` | | its inductive invariant and the proofs |
| `Session`, `SessionProps` | a caller of the library | `Tristripper`, `Statistics` and `Verifier` (an instance of `VerifierProofs`) together: create, measure, verify, dispose, call again |
| `SessionInv`, `SessionProofs` | | the invariants of the composition, and the proofs that the phases fit together over any number of calls and that collecting spells what it collects |
| `SpellingProofs` | | the proofs that the output spells the list, and what the verifier and the statistics say of it |
| `HashMap`, `HashMapProps` | the generic hashmap | one action per call; a resize is part of the update that causes it |
| `Dictionary` | the abstract promise of the hashmap | |
| `Vec`, `VecProps` | the vector over a heap | one action per call, but a push of several elements is one per doubling of the capacity |
| `Arrays` | the abstract promise of the vector | sequences that grow and shrink at their end |
| `VecProofs` | | the invariant of `Vec`; that it implements `Arrays` |
| `MC...` | | instances for TLC |

Correspondence. Functions are split at their loops: the program is at the head
of a loop when `pc` has that loop's name, and an action is one pass through the
body. A local variable that lives across iterations is a VARIABLE (`first`,
`tunnel`, `step`, `walker`, ...); the call stack is implied by `pc`. The C
assertions are compiled out of release builds, so no action tests them:
`AssertionsHold` and `EndpointsLast` state them, with their lines. Three loops
over the tunnel only put flags or links back, and nothing else looks at the
triangles meanwhile; they are one step each: the one that restores the links of
an undone tunnel (`rm_tristripper_ex.c:1075`, `UndoTunnel`), the one that unvisits
what is above the index to go back to (`:892`, `BacktrackTo`), and the one after a
cancelled search (`:736`, `CancelDig`). Their half-way states are not states of
the model: half-way through the first one, the two sides of an edge do disagree
in the code, and `LinksAgree` says nothing of that. `map` in
`PROJECT.json` gives the lines of every definition.

Abstractions: vertex IDs are small numbers, since the code only compares them
(the hashmap's own model has the hash function, with 4 bits instead of 64, and
the verifier's has `rm_size` with the constant `Sizes` instead of 2^64 values).
A component that is modelled on its own is used through what it is shown to
implement: the hashmaps of `BuildTris` and `Verifier` are functions, the vectors
of `Output`, `Simple` and `HashMap` are sequences.
An allocation succeeds, as `rm_mem` exits otherwise. The place of the triangles
in memory is the order of the array. The endpoints and adjacency lists are
sequences instead of linked nodes: the list operations are modelled as a whole,
and a pointer read from a node after its removal is not: the code's order of
reading and removing is in the actions (`TunnelFound`, `NextEndpoint`), and the
mutant `StaleNextEndpoint` is that order broken. The byte of the triangle
record that is `unstripped_neighbours_count` during preprocessing and the
tunnel state afterwards is one variable (`sharedByte`) in `Tristripper`, as it
is one union in C.

## What the runs check

| run | question | instance |
|---|---|---|
| `tunneling` | do links, endpoint flags, endpoint list, visited flags and tunnel agree at every step; does any assertion fire; is the circle check exact; when an unlimited search ends, is every tunnel that is left one that was given up with a circle; does tunneling implement `PathCover`; does it end; do the invariants that are proved hold | 7 surfaces in 4 rotations, all 210 sets of six of the ten triangles over five vertices and two lists of ten triangles; all configurations |
| `tunneling_overlooked` | violation: a tunnel is left when an unlimited search ends | the two lists of ten triangles |
| `tunneling_cancelled` | violation: a cancelled search leaves visited flags | surfaces |
| `preproc` | lists exact, strips grow as paths, the cover handed over is right and cannot be grown; does the invariant that is proved hold | surfaces and all sets of six and seven triangles over five vertices |
| `build_tris` | is the map of open edges exact, is the mesh stitched, is it the mesh that `Mesh` states | all pairs of triples over three vertices (degenerated and repeated ones), one edge with up to four sides in either direction, surfaces |
| `tristripper` | do the strips spell the input, with their winding if asked to; do tunneling's promises hold from every preprocessing, and does it overlook only what it gives up; does the verifier accept every result; are the statistics exact; what is left in the configuration record; does every call and every verification return | any number of calls in a row: the first with surfaces, repeated and degenerated triangles, sets of five triangles and all algorithms; the following ones with four lists from none to six triangles |
| `hashmap` | is the map a dictionary, is every cell owned once, is iteration exact, are references balanced, is a map that was asked for enough buckets left alone | 4-bit hashes, chains of up to four, doubling and quadrupling, limits |
| `hashmap_clear` | violation: a cleared map still finds a key | four buckets |
| `hashmap_key_release` | violation: remove releases the caller's key instead of the stored one | a ref function that duplicates |
| `hashmap_for_each` | violation: iteration goes on after it was told to stop | |
| `verifier` | is the verdict, and are the triangles logged as missing, what counting by corners gives, for one comparison after the other | all pairs of windings of one triangle and its neighbours, lists of up to four; up to three strips out of ten, some too short for a triangle |
| `vec` | do vectors implement sequences, and is what was pushed at their end; is the capacity the length of the block; has every block one owner; are pointers and arrays that were handed out good | two vectors, two blocks, two elements |

Bounds and why they are enough. Tunnels of 2, 4, 6, 8 and 10 triangles occur
(`maxCount` 3, 4, 10: odd ones test the truncation), circles of two and more
triangles, tunnels that flip the same strip twice, undo followed by a
backtrack to the middle and to the top. The five-vertex meshes are not
manifolds: up to three triangles share an edge, two triangles are neighbours
across several edges. Loop limits 1 to 4 cut the search at its start and in the
middle. The properties of single steps are about one tunnel and the strips that it
meets, and the small meshes have those in every local configuration. What a whole
search overlooks is not local: the lists of ten triangles (`Tangles`) are the smallest we
found whose search leaves a tunnel behind, one with long tunnels at once and one with
incremental tunneling; the proofs are for every size. The hashmap runs have keys whose hashes agree in all, some and none of
the bits that a resize looks at, one with hash 0, and limits that stop it from
growing; its tables of one bucket allow the clears that the finding below makes
unsound in larger ones.

The verifier sees lists in which a triangle occurs up to four times in different
windings and strips with one more, one less, an unknown one, a swap; the
comparisons follow each other with one verifier. The session adds the strips
that the library really makes.

In the `vec` run the capacity starts at 1 and may become 1, 2, 3, 4: with at
most three elements (`MaxCount`) a push needs no, one and two doublings, an
ensured capacity (3) is no power of two and is doubled further. With two blocks,
every reallocation may move or stay, and the heap may be full. Vectors and
blocks are interchangeable, and every property treats them so, which is why
`SYMMETRY` is sound. The proofs below have no such bounds.

Every property has a mutant of the code, a plausible slip, under which
TLC finds it violated in the same instance.

Fairness. The only fairness is weak fairness of the next-state relation,
`WF_vars(Next)` (`WF_sessionVars(Next)` in `Session`): a sequential call keeps
running until it returns, and its caller goes on to measure and verify.
Termination follows from that alone, for all configurations, with loop limits as
well. `Terminates` of the session also covers the verifier: a strip shorter than
two IDs would make it read 2^64 triples (here `Sizes`), and it is never given one.

## What is proved

`BuildTrisProofs` proves, for every set of inputs of any length and whichever
byte uninitialised memory is filled with (assumptions `MaxTrisAssumption`: the array has
room; `InputsAssumption`: an input is a sequence of triples of naturals that fits):

- `IInvHolds`: `Spec => []IInv`, the type correctness of `build_tris` and its
  inductive invariant;
- `AlwaysStitched`: `Spec => []StitchedSoFar`, the mesh is stitched both ways at
  every step and the neighbour counters are right;
- `AlwaysExact`: `Spec => []OpenEdgesExact`, the hashmap holds exactly the sides
  that have no neighbour;
- `AlwaysBuildsTheMesh`: `Spec => []BuildsTheMesh`, the array that is returned is
  the mesh of `Mesh`, without links and endpoint flags, for lists with degenerated and repeated triangles and for
  edges with any number of sides.

`AlwaysStitched` and `AlwaysExact` are not inductive alone. A side taken from the map is
overwritten, so stitching stays symmetric only because a side in the map has no
neighbour (`EntriesOpen`); the map stays exact because the sides that were not
looked at yet have no neighbours (`UnseenSidesOpen`), because a triangle in use
is not degenerated (`TrisProper`), so that its own sides have three different
keys (`SidesOfOneTri`) and it is never stitched to itself. `IInv` is the
conjunction. It speaks of the triangles in use; what the array holds behind
them may be anything until a triangle is read into it. There is one lemma per action, two for the action that either
opens or closes an edge, and `OneMoreNeighbour` counts.

The mesh needs a second invariant on top, `MeshInv` (`MeshInvHolds`): the array
is the proper triangles read so far (`TrisRead`); among the sides seen on one edge
each has a place, and the neighbours are the sides on the places 1 and 2, 3 and
4, ... (`TwoByTwo`); a side without a neighbour is on an odd place and the last of
its edge (`OpenIsLast`). A new side has the largest place of its edge, and the map
offers it the side that is open, which is the one before it: that there is no other is
`AlwaysExact`, that its place is odd is `OpenIsLast`.

`PreprocProofs` proves, for every set of meshes of every size and all three
algorithms (assumptions as for tunneling):

- `PreprocListsExact`: `ListsExact`; the adjacency lists hold exactly the
  triangles of no strip, each once, by the number of its neighbours of no strip;
- `PreprocGrowsAPath`: `GrowsAPath`; the strip that is being grown is a path with
  two known ends;
- `PreprocCoverReady`: `CoverReady`; what is handed over to tunneling is an initial
  state of `PathCover` - mutual links, no circle, the right number of strips -
  and its ends are the flagged and the listed triangles;
- `PreprocEndsApart`: `EndsApart`; the ends of two strips are neighbours only if
  one of the strips is a pair, so that nothing was left to be joined directly.

`PreprocInv` (`PreprocInvHolds`, and checked by `preproc`) is the strengthening.
Three descriptions of the triangles that are in no strip have to agree
through every step of `SetStrippedAndPropagate`, which takes a triangle out and
moves its neighbours one by one: flags, counters and lists (`ListsOK`; one
neighbour in `Demoted`, all of them in `Propagation`).
The links close no circle because a strip is only ever extended by a triangle
that is in none (`LinksOK`, `GrowsLinks`), and the sum that counts the strips is kept by
each link. The ends of a finished strip are shut (`ApartOK`): every neighbour is in
a strip already when stripify stops there, and not in the strip itself.

`TunnelingProofs` proves, for every set of meshes and configurations of every
size (assumptions `MaxTrisAssumption`; `ConfigsAssumption`: a configuration has
the fields of the C record; `MeshesAssumption`: a mesh is
stitched both ways, which is what `AlwaysStitched` proves of `build_tris`; the
module itself starts from the preprocessing that makes every triangle a strip, and
`SessionProofs` below from any), that these hold at every step:

- `TypesHold`: `TypeOK`; the stack never outgrows its allocation and a tunnel
  index fits its 16 bits;
- `NoAssertionFires`: `AssertionsHold`; no assertion of a debug build fires;
- `LinksAlwaysAgree`: `LinksAgree`; the two sides of every edge agree, in the
  middle of flipping a tunnel too (taking one back is one step);
- `ListFollowsFlags`: `EndpointList`; list, flags and links agree on the endpoints;
- `FlagsFollowTunnel`: `VisitedIsTunnel`; no flag outlives a search;
- `PathsAlternate`: `TunnelAlternates`; a tunnel is a simple alternating path;
- `CircleCheckIsExact`: `CircleCheckExact`; the circle check reports a circle if
  and only if flipping the tunnel has closed one, and with it the largest tunnel index on it;
- `TunnelingIsPathCover`: `Spec => ImplementsPathCover`; the only step that
  changes the cover is the last one of a tunnel that stays, and it joins exactly
  two paths;
- `StripsCounted`: `Spec => []Cover!CountsStrips`; the count of strips, which is
  only ever decremented, is the number of triangles less the number of linked edges;
- `NothingElseIsOverlooked`: `Spec => []TunnelsTried`; when a search without a loop limit
  and a destination count is over, a tunnel that is left begins like a path that
  closed a circle, up to behind the last triangle on both;
- `ShortTunnelsAreFound`: `Spec => [](config.maxCount <= 4 => NoTunnelLeft)`; with
  tunnels of two and of four triangles none is left, as the documentation says.

All of them have the hypothesis `CancelsCleanly`: every configuration is without a
loop limit, backtracks after it, or has tunnels of two triangles. It cannot be
dropped: for the other configurations `tunneling_cancelled` shows that
`VisitedIsTunnel` is false.

None of the properties is inductive; `IInv` (`IInvHolds`) is the strengthening of the first
six, `CoverInv` (`CoverInvHolds`), which contains `IInv`, of the next three, and
`TriedInv` (`TriedInvHolds`, and checked by `tunneling`), which contains both, of all of
them. Four ideas are in `IInv`.

- *Links as they were.* While a tunnel is flipped, checked and taken back, each
  of its triangles has a saved copy of its links as well as current ones.
  `SettledLinks` are the saved ones where there are any. `LinksOK` says that the
  settled links agree and that the listed endpoints are their ends, which no
  step of cementing disturbs; `FlipOK` says where on the tunnel the current
  links differ, and by how much. Undoing is then going back to what always held.
- *What may still be tried.* `StatesOK` says that every digit in the tunnel state
  of a triangle is a position it may be left by (`Permitted`), which depends on
  the settled links and on the tunnel up to it only. A push needs no more to
  continue the path, and a retreat to an earlier triangle needs it of every
  triangle on the stack.
- *The ends.* Before a tunnel is flipped, its two ends have at most one link, so
  the flip leaves them with at most two; an inner triangle keeps its number of
  links. So a tunnel that stays has ends that are endpoints only if they were
  isolated, which is what `isolated` remembers between marking and undoing.
- *The walk.* The circle check clears the visited flags along a strip, and its
  assertion needs that a walk never enters a triangle with no way on. `CheckOK`:
  a tunnel's pair of triangles that is linked by the flip is cleared as a pair,
  except for the pair whose second half the walk is about to enter.

`CoverInv` is why the circle check may be trusted. A circle is stated without
walks, as a set of triangles each of which has two links into the set
(`Circles`), which is what makes it provable without an induction along a strip.

- Outside of a check there is no circle in the settled links (`CirclesOK`). A
  flip links pairs of tunnel triangles only, so a circle of the new links has one
  of them; and while the check is under way, every circle that has a cleared
  triangle also has the starter of the walk.
- Between the starter and the walker lies a set `W` of triangles that the walk
  has passed, whose links are all among themselves (`WalkOK`). So a circle
  through the walker is one through the starter, and when the walk is back at the starter,
  `W` and the two are a circle; when it comes to an end instead, no circle has any of
  them. No triangle of the tunnel in `W` has a larger index than the one the check
  reports.
- A tunnel without a circle changes the number of links by two, on its two ends
  (`FlippedLinks`, `FoundJoins`): the join of `PathCover`. Undoing gives back
  the settled links, so that it is a stutter over the whole of the tentative change.

`TriedInv` is an account of what the search has left behind. The paths are
enumerated in the property by a recursive function (`AlternatingFrom`), without a search.

- *An account of paths.* `Closing` are the paths from end to end that may be dug;
  `Tried(p)` says of one that flipping it makes a circle, or that it has been
  given up. A path is `Behind` the tunnel at its triangle `i` when it begins like the
  tunnel up to `i`, and then leaves it by a position that is not left to try on the
  stack of that triangle. `SearchOK`: all the paths behind the tunnel are tried; `PassOK`: so are,
  until a tunnel is found in the pass, all those from an endpoint before `first` in the list.
- *It is about the settled links only*, so that flipping and checking leave it as it is
  (`TriedFrame`), and a tunnel that stays starts it anew: the pass is then one that
  has found something, and another one follows.
- *A step of the search* moves one set of paths across: a push makes the top's
  position one that is being tried (`PushTried`); opening a triangle puts all the
  positions on its stack by which a path can go on (`ExpandTried`); and when the last position
  of a triangle is used up, every path that begins like the tunnel up to there is
  tried, so that the position of the one before it is, too (`SelectedIsTried`).
- *An undone tunnel* is tried because the circle that the check reports is one of
  `CirclesAfter` of it (`FoundCircle`). The search goes back to the last tunnel triangle
  on that circle. Every path that begins like the tunnel up to that one and leaves
  it by the same side is given up, which is what `GivenUp` says; nothing else is (`UndoTried`).
- *The passes* end when one has found nothing, or with a single strip: then every path
  closes a circle, as its two ends are those of the one strip (`OneStrip`).
- *The enumeration* is a recursive function, and what it computes is an induction over
  the length of a path. It is done by the least length at which the claim would fail
  (`LeastNumber`, used in `AlternatingPaths`), as the induction theorems of the
  library cannot be used.

A path of four triangles that is given up has no triangle left to break the circle
with, which is `ShortGivenUp`; a longer one may have (see the second finding below).

There is one lemma per action of the module, under it one step per part of the
invariant that the action disturbs; `QuietStep` and the `...Frame` lemmas say what
an action that leaves a part of the state alone preserves.

`SessionProofs` proves what the phases promise each other, for all inputs, all
settings and any number of calls with one configuration record (assumptions:
`MaxTrisAssumption`, `InputsAssumption` and `FollowUpsAssumption`: the lists are
sequences of triples that fit; `SettingsAssumption`: a setting names an algorithm and
has a configuration record; hypothesis `CancelsCleanly`, of the settings):

- `TunnelingAlwaysHolds`: `Spec => []TunnelingHolds`; the state properties of
  tunneling hold in every call, from the strips that preprocessing makes of
  the mesh that `build_tris` makes of the list;
- `SearchesAreThorough`: `Spec => []NoneOverlooked`; an unlimited search overlooks only
  what it gives up, from whatever strips preprocessing has made;
- `TunnelingAlwaysJoins`: `Spec => TunnelingJoins`; so does the refinement of `PathCover`;
- `EndpointsAlwaysLast`: `Spec => []EndpointsLast`; collecting never runs out of
  endpoints before the last strip, and has none left after it;
- `RecordAlwaysHeld`: `Spec => []RecordHeld`; what the record holds after any calls.

`SessionInv` (`SessionInvHolds`) puts the proved invariants together: in each
phase the invariant of that phase (`PhasesOK`), which the theorems of the three
proof modules keep, instantiated over the variables of `Tristripper`; before
it the variables it will find as they were initialised (`UntouchedOK`); and what
lasts through a call (`SettingsOK`, `RecordOK`). A phase ends in what the next
one starts from: `MeshInvHolds` gives a mesh that is stitched both ways, which is all
that `Preproc` assumes of one, and `CoverReady` is what `CoverInv` needs to begin
(`HandedOver`). Between calls only the record stays, which is `BetweenCalls`. Two arguments
are new.

- *Collecting* takes a strip per endpoint that comes up in the list, and deletes
  the other end from the list. `CollectOK`: the endpoints not collected from are the ones of
  whole strips, and the places for links that they have left - one at each end of
  a strip, two at a triangle alone - are twice the strips that are missing. This starts
  from `StripsCounted` and is taken down by two for every strip (`StripTaken`). The
  walk has to come out at the other end of the same strip, and at no third one:
  `Leads` says, as `WalkOK` does for the circle check, that the triangles it
  has passed have no links but among themselves, so that they with the two ends are
  a whole strip when the walk stops (`LeadsToTheEnd`).
- *The record.* Truncating `max_count` by one mesh and then by another is truncating
  it by the smaller one (`TruncatedTwice`), and incremental tunneling, which
  counts in the record, ends where it is the given limit (`RecordOK`).

`SpellingProofs` proves what all of this is for: that the IDs are right. The
hypotheses and assumptions are those of `SessionProofs`, the statistics need one more:

- `OutputIsExact`: `Spec => []OutputSpells`; the strips of every call spell each proper
  triangle of its list as often as the list has it, and nothing else, with and
  without tunneling, whatever is swapped, turned and joined on the way;
- `OrientationIsKept`: `Spec => []OrientationKept`; if the mesh is oriented and the
  orientation is to be kept, each is also wound the same way;
- `EveryCallIsAccepted`: `Spec => []AcceptedByVerifier`; the verifier accepts the
  strips of every call;
- `StatisticsAreExact`: `Spec => []StatsExact`; they count the proper triangles of the
  list, and the IDs that a renderer is sent. Hypothesis `2 * MaxTris < Sizes`: a
  strip has at most two IDs per triangle and two more, and the code subtracts two
  from their number in `rm_size` (2^64 values; a triangle takes more than two bytes of memory).

`SpellInv` (`SpellInvHolds`) says in every phase which triangles the IDs so far
spell. Two triples are `Alike` if they have the same corners (the first theorem), or if they are
wound the same way (the second): one proof for both.

- *Counts instead of matchings.* IDs spell a set of triangles when each triple has
  as many places in them as it has triangles in the set (`ListSpells`). That is asked of triples
  that one of the sides has; the others have none on either (`WrittenEvery`, `MeshReadEvery`).
- *Where a strip goes on.* A list ends in the two IDs of the edge across which its strip
  goes on, in an order that depends on the parity of its length (`Strand`, `Along`). With the vertex
  opposite to the edge it spells the next triangle, and with the right one of two
  swap before it the edge that the strip goes on across is at its end again (`StrandNear`,
  `StrandFar`). A swap spells nothing: two of three IDs are equal. No
  triangle takes more than two IDs (`Fits`).
- *Collecting* walks along links; `CollectSpells` puts `Leads` of `SessionInv`, the
  triangles walked through, beside the IDs that were written for them.
- *The simple algorithm* starts in the middle. It writes a prefix of IDs away from the core,
  and then turns it and goes on at the other end. So while it grows backward, the invariant is about
  the list read from the core's entrances on, which has up to one ID less before it than the strip
  will have (`Backward` and the `turn` of `GrowsBackward`); turning is `ListReversed`, where the
  windings come out right because the parity of the prefix is what the code makes it; and
  while it is turned in place, it is `PrefixTurned`.
- *The list* enters through `MeshInv` of `BuildTrisProofs` (`MeshRead`), and the two
  vertices that neighbours share through `TwoByTwo` (`GoodMesh`).

The verifier's part is then `VerdictExact`, over the list and the strips of the call
(`VerifierOK`). The statistics are a sum over a recursive function (the community modules'
`FlattenSeq`): that it exists, and its length, are again inductions by a least number
(`UpFromOne`, `Flattened`, `JoinedLength`); that two sets with equally many elements of each
kind are equally large is a third one (`AsManyOfEach`).

`VerifierProofs` proves, for every list and any sets of strips (assumptions:
a list is a sequence of triples of naturals of any length, a strip has at least
two IDs and is shorter than `Sizes`, the width of the counters):

- `VerdictIsExact`: `Spec => []VerdictExact`; the verifier accepts exactly the
  strips that have every triangle, in whatever winding, as often as the list;
- `MissingIsExact`: `Spec => []MissingExact`; what it logs is what is missing;
- `CountersAreDistinct`, `TypesHold`, `InvariantHolds`.

The code compares only two sums at the end. That this is enough is a counting
argument: the occurrences in the list are numbered for each triangle
(`Slots`; `validTris` is their number), and an occurrence in the strips that is
not superfluous is matched with the slot of its number (`MatchedSlots`, a subset;
`matchedTris` is its size). Without a superfluous or unknown triangle the two
sums are equal if and only if the sets are, that is, if every counter has reached
its multiplicity. `IInv` says so of what has been read so far (`ListCounted`,
`StripsCounted`), and that no two triangles share a counter. That sorting the
corners gives equal keys exactly to equal triangles is `KeyOfCorners`
in the same module.

`VecProofs` proves, for any number of vectors, blocks
and elements and any start capacity:

- `CapacityIsTrue`, `BlocksAreOwned`, `PointersAreLive`: `CapacityTrue`,
  `BlocksOwned` and `PointerLive` at every step;
- `GivenIsUntouched`: `Spec => GivenUntouched`, no operation on a vector changes
  an array that was handed out;
- `VectorsAreSequences`: `Spec => ImplementsArrays`, the refinement;
- `PushedIsAppended`: `Spec => PushesAppend`. `Arrays` leaves open what an extension
  puts at the end; this says that it is what was pushed.

`IInv` (`InvariantHolds`) adds to the three what is true between the steps of a
long push (`PushUnderway`): there the counters already have their new values and
the block its old length, so that `Count`, the number of elements that are
there, is the old count. The refinement maps a vector to the first `Count`
elements of its block. Every operation changes the block of its own vector only
(`OwnBlocksOnly`), and the blocks have one owner, so the other sequences stay
(`OthersKept`); the doubling steps and the reallocations leave the first elements
where they were (`ResizedBegins`, `WrittenBegins`) and the last step of a push
extends the sequence (`ExtendsIt`), by the new elements at their places
(`WrittenEnds`, `AppendsIt`).

Only model-checked:

- the hashmap (`CellsOwnedOnce`, `IterationExact`, `RefsHeld`, `NoEarlyResize` and the refinement of
  `Dictionary`): its buckets are chains that are walked to the end, so its proof needs
  facts about sequences of any length;
- `Terminates`, as liveness is out of the prover's reach.

## What disagrees with the documentation

1. `rm_tristripper_ex.c:738` (`tunneling_cancelled`): a search that a loop limit
   cancels is to unvisit its tunnel, but the loop clears the flag of the last
   triangle in every iteration. The other triangles stay visited. The runs that
   are to pass therefore cancel only searches whose tunnels have two triangles,
   where the last one at that point is the only one.
2. `rm_tristripper_ex.c:1097` (`tunneling_overlooked`): without a loop limit "we loop
   until all DFS paths of depth "max_count" have been evaluated"
   (`rm_tristripper_common.h:41`), "until all paths have been discovered" (`:48`). When a
   tunnel has closed a circle, the search goes back to the last tunnel triangle on it and
   drops all the paths that leave it by the same side. One that meets the circle once
   more further on breaks it, and may be a tunnel. The result is a
   correct cover that could have a strip less. No tunnel is lost in any other way
   (`TunnelsTried`, proved).
3. `rm_hashmap.h:852` (`hashmap_clear`): `clear` zeroes too few bytes of the
   buckets, so that keys are found after it. Nothing in the library calls it.
4. `rm_hashmap.h:1084` (`hashmap_key_release`): `remove` hands the key it was
   called with to the unref function, not the stored one. A ref function may
   return a duplicate (`rm_hashmap.h:1151`), which is then never released.
5. `rm_hashmap.h:719` (`hashmap_for_each`): a function that returns false ends
   the bucket, not the iteration.

Without a run: "These indices stay forever 0 if the corresponding neighbour is not
present" (`rm_tristripper_tri.h:67`), but the triangles come from `malloc`, and
`build_tris` writes an index only where it stitches (`rm_tristripper_tri.c:107`).
Nothing reads the others: the runs have several values for them, and the proofs any.
"For an empty vector, null is returned" (`rm_vec.h:43`, of
unwrapping) is not so for a vector that was emptied but still has its block; the
block is returned, and the caller who believes the comment would leak it. In the
model the client of `Unwrap` owns the block, and `BlocksOwned` holds.

## What is not modelled

- File, log, memory, assert, type and macro helpers and the example program:
  thin wrappers around the C library and formatting, with no stripping logic and
  no state of their own. The assertions themselves are properties of the modules
  they stand in.
- A vector that is used after it was disposed or unwrapped without being
  initialized again, and arguments of `rm_vec_push` that read the vector they are
  pushed to (the macro evaluates them after it has moved the block): no caller
  does either.
- The wrappers of the hashmap that only choose an update mode or a capacity, and
  the texts of its debug version (its count of collisions is in `IterationExact`).
- Allocations that fail: the program exits.

## Plan

In this order; the first fourteen are done.

1. `TriArray`, `Mesh`, `Tunneling` with `PathCover`: the core.
2. `Adjacency`, `Preproc`: what tunneling starts from.
3. `BuildTris`, `Output`, `Simple`, and `Tristripper` that composes all phases.
4. `HashMap` with `Dictionary`.
5. Proofs about `BuildTris`.
6. Proofs about `Tunneling`: the inductive invariant and what follows from it.
7. `Verifier`, `Statistics`, and `Session` that composes them with the whole
   call; hooks, disposal and iteration of the hashmap; proofs about `Verifier`.
8. `Vec` with `Arrays`, its invariant and its refinement, proved.
9. Proofs about `Preproc`: lists exact, the cover that is handed over.
10. Proofs about the circle check, and the refinement of `PathCover`.
11. That `BuildTris` computes `Mesh`.
12. The composition: the invariants of `BuildTris`, `Preproc` and `Tunneling` hold in their
    phases of `Session`, from the instantiated theorems; then `TunnelingHolds`,
    `TunnelingJoins` and `EndpointsLast` for any number of calls.
13. That the search overlooks only what it gives up, alone and in the whole call.
14. That the output of every call spells its list, is accepted by the verifier, and is
    measured exactly.
15. Proofs about `HashMap`: every cell is owned once.
