--------------------------------- MODULE Game ---------------------------------
(***************************************************************************)
(* frogger_game.c: one frame moves the blocks of the three rows, then      *)
(* tests the player against them where he is, and only then moves him, as  *)
(* far as the frame took time.  Lengths are in units of the cube's half    *)
(* side (0.2); up is towards -z, right towards +y.  Saving and loading are *)
(* Ecs's, drawing is Render's.                                             *)
(***************************************************************************)
EXTENDS Integers

CONSTANTS Row,           \* rows are at z = Row, 0 and -Row (2.0, 10 units)
          Home,          \* where the player starts; he has arrived beyond -Home (4.0)
          Edge,          \* where a block's path ends (12.0)
          Count,         \* of the blocks of a row (4)
          Spacing,       \* between them (6.0)
          HalfLengths,   \* half a block's length: 0.2 times a width in 4 .. 12
          Speeds,        \* how far a frame takes the player: 2.0 a second
          MaxAside       \* bound: how far he goes to a side, or back

Rows  == {-Row, 0, Row}
Cubes == Rows \X (0 .. Count - 1)
Arrows == {"up", "down", "left", "right"}

VARIABLES player,        \* y and z
          block,         \* y and half-length of each; its z is its row
          tested,        \* history: rows tested with the player in them
          leapt          \* history: whether a frame took him further than a row
                         \* is wide; both since he was last home

gameVars == <<player, block, tested, leapt>>

AtHome == [y |-> 0, z |-> Home]

Place(n) == ((Count - 1 - 2 * n) * Spacing) \div 2

GameInit == /\ player = AtHome
            /\ block \in {b \in [Cubes -> [y : {Place(c[2]) : c \in Cubes}, half : HalfLengths]] :
                           \A c \in Cubes : b[c].y = Place(c[2])}
            /\ tested = {} /\ leapt = FALSE

-----------------------------------------------------------------------------
(* update_blocks: a block beyond its path starts over, with a new length.  *)

Beyond(row, y) == IF row = 0 THEN y > Edge ELSE y < -Edge
Start(row)     == IF row = 0 THEN -Edge ELSE Edge

Step(row, speed) == CASE row > 0 -> -speed
                      [] row < 0 -> -2 * speed
                      [] row = 0 -> (3 * speed) \div 2

UpdateBlocks(speed, lengths) ==
  block' = [c \in Cubes |->
              LET over == Beyond(c[1], block[c].y)
              IN  [y    |-> (IF over THEN Start(c[1]) ELSE block[c].y) + Step(c[1], speed),
                   half |-> IF over THEN lengths[c] ELSE block[c].half]]

-----------------------------------------------------------------------------
(* update_players: a player who has arrived starts over, and so does one   *)
(* who touches a block, before the keys move him.                          *)

Near(a, b, far) == a - b <= far /\ b - a <= far

(* FAULT: the player's own size is forgotten. *)
InRowCentre(p, row) == Near(p.z, row, 1)

InRow(p, row) == Near(p.z, row, 2)

Touches(p, c, b) == Near(p.y, b.y, b.half + 1) /\ InRow(p, c[1])

By(keys, less, more, speed) ==
  (IF more \in keys THEN speed ELSE 0) - (IF less \in keys THEN speed ELSE 0)

UpdatePlayers(speed, keys) ==
  LET arrived == player.z < -Home
      p       == IF arrived THEN AtHome ELSE player
      hit     == \E c \in Cubes : Touches(p, c, block'[c])
      from    == IF hit THEN AtHome ELSE p
      fresh   == arrived \/ hit
  IN  /\ player' = [y |-> from.y + By(keys, "left", "right", speed),
                    z |-> from.z + By(keys, "up", "down", speed)]
      /\ tested' = (IF fresh THEN {} ELSE tested) \cup {row \in Rows : InRow(from, row)}
      /\ leapt' = ((leapt /\ ~fresh) \/ speed > 4)

GameFrame(speed, keys) ==
  /\ \E lengths \in [Cubes -> HalfLengths] : UpdateBlocks(speed, lengths)
  /\ UpdatePlayers(speed, keys)
  /\ Near(player'.y, 0, MaxAside) /\ player'.z <= Home + MaxAside

GameNext == \E speed \in Speeds, keys \in SUBSET Arrows : GameFrame(speed, keys)

GameSpec == GameInit /\ [][GameNext]_gameVars

-----------------------------------------------------------------------------
(* Nobody gets past a row without having been tested against its blocks    *)
(* while he was in it, unless a frame took longer than the 0.4 s that take *)
(* him from one side of it to the other; and a block is never further      *)
(* beyond its path than a frame takes it.  (frogger_game.c:444-469)        *)
NoRowSkipped ==
  /\ \A row \in Rows : player.z < row - 2 => row \in tested \/ leapt
  /\ \A c \in Cubes : Near(block[c].y, 0, Edge + 2 * (CHOOSE s \in Speeds : \A other \in Speeds : other <= s))
=============================================================================
