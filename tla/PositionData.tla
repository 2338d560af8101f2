---------------------------- MODULE PositionData ----------------------------
(***************************************************************************)
(* The way of a position from a radio packet to the robot's program:       *)
(* rf_process_packet() and copy_objects() of drivers/rf.c, and the daemon  *)
(* and accessors of user/robot/src/vps_data_daemon.c.                      *)
(*                                                                         *)
(* Three threads: the radio thread stores packets in locked_game under     *)
(* objects_lock; the daemon copies that to game, and game to the values    *)
(* the accessors return, under vps_data_lock; readers call the accessors.  *)
(* Every assignment of a coordinate is a step of its own.                  *)
(***************************************************************************)
EXTENDS DriverLocks

CONSTANTS
  Rf, Daemon,     \* the two threads of the system; the others are readers
  Us, Them,       \* the robots of the round
  None,           \* the id 0xAA of a place in a packet with no robot
  Board,          \* the boards packets are sent for
  NoBoard,        \* 0xFF: our board is not known yet
  Origin,         \* the packets that report us at the origin
  MaxPackets      \* bound: number of packets

PositionDataAssumption ==
  /\ {Rf, Daemon} \subseteq Thread
  /\ Rf # Daemon
  /\ Us \notin {Them, None}
  /\ Them # None
  /\ NoBoard \notin Board
  /\ MaxPackets \in Nat
  /\ Origin \subseteq 1 .. MaxPackets

VARIABLES
  sent,           \* number of packets sent
  robot_id,       \* whether usetup() has set it
  rf_which_board,
  rx,             \* the coords of the packet being processed
  locked_game,    \* its coords
  game,           \* its coords
  vps,            \* vps_position, x and y, and vps_antagonist
  vps_daemon_has_recvd,
  got             \* what an accessor has read of vps_position

vars == <<halter, holder, pc, sent, robot_id, rf_which_board, rx, locked_game,
          game, vps, vps_daemon_has_recvd, got>>

Reader == Thread \ {Rf, Daemon}

\* coords[0] and coords[1]; n is the number of the packet a position is from.
Coord == [id : {Us, Them, None}, n : 0 .. MaxPackets]
Blank == [id |-> None, n |-> 0]
Start == [x |-> 0, y |-> 0, them |-> 0]

TypeOK ==
  /\ rf_which_board \in Board \cup {NoBoard}
  /\ rx \in Coord \X Coord
  /\ locked_game \in Coord \X Coord
  /\ game \in Coord \X Coord
  /\ vps \in [x : 0 .. MaxPackets, y : 0 .. MaxPackets,
              them : 0 .. MaxPackets]

Init ==
  /\ halter = Nobody
  /\ holder = [l \in {"objects", "data"} |-> Nobody]
  /\ pc = [t \in Thread |-> "idle"]
  /\ sent = 0
  /\ robot_id = FALSE
  /\ rf_which_board = NoBoard
  /\ rx = <<Blank, Blank>>
  /\ locked_game = <<Blank, Blank>>
  /\ game = <<Blank, Blank>>
  /\ vps = Start
  /\ vps_daemon_has_recvd = FALSE
  /\ got = [t \in Reader |-> Start]

\* usetup() sets the number of the robot, then starts the daemon.
SetRobotId ==
  /\ ~robot_id
  /\ robot_id' = TRUE
  /\ UNCHANGED <<halter, holder, pc, sent, rf_which_board, rx, locked_game,
                 game, vps, vps_daemon_has_recvd, got>>

-----------------------------------------------------------------------------
(* rf_process_packet(), a POSITION packet *)

\* Our own position first.
Swapped(c) == IF c[2].id = Us THEN <<c[2], c[1]>> ELSE c

\* Our board is that of the first packet with us in it.
WhichBoard(board, c) ==
  IF rf_which_board = NoBoard /\ c[1].id = Us THEN board ELSE rf_which_board

\* A packet arrives and is dropped or goes on to be stored.
Packet(board, c) ==
  LET mine  == Swapped(c)
      which == WhichBoard(board, mine)
  IN
  /\ sent < MaxPackets
  /\ sent' = sent + 1
  /\ IF robot_id
     THEN /\ rf_which_board' = which
          /\ IF which = board
             THEN rx' = mine /\ Goes(Rf, "idle", "lock")
             ELSE UNCHANGED rx /\ Goes(Rf, "idle", "idle")
     ELSE UNCHANGED <<rf_which_board, rx>> /\ Goes(Rf, "idle", "idle")
  /\ UNCHANGED <<halter, holder, robot_id, locked_game, game, vps,
                 vps_daemon_has_recvd, got>>

\* Mutant: a packet without us overwrites our position.
PacketAsIs(c) == c

\* A packet without us keeps our last position.
Restored(c) ==
  IF c[1].id = Us THEN c
  ELSE <<locked_game[1], IF c[1].id # None THEN c[1] ELSE c[2]>>

RfLock ==
  /\ Goes(Rf, "lock", "copy0")
  /\ Takes(Rf, "objects")
  /\ rx' = Restored(rx)
  /\ UNCHANGED <<halter, sent, robot_id, rf_which_board, locked_game, game,
                 vps, vps_daemon_has_recvd, got>>

\* memcpy() to locked_game
RfCopy(i, from, to) ==
  /\ Goes(Rf, from, to)
  /\ locked_game' = [locked_game EXCEPT ![i] = rx[i]]
  /\ UNCHANGED <<halter, holder, sent, robot_id, rf_which_board, rx, game,
                 vps, vps_daemon_has_recvd, got>>

RfUnlock ==
  /\ Goes(Rf, "unlock", "idle")
  /\ Gives(Rf, "objects")
  /\ rx' = <<Blank, Blank>>
  /\ UNCHANGED <<halter, sent, robot_id, rf_which_board, locked_game, game,
                 vps, vps_daemon_has_recvd, got>>

-----------------------------------------------------------------------------
(* vps_download_info() and copy_objects() *)

\* The daemon's pause is over.
DaemonWakes ==
  /\ robot_id
  /\ Goes(Daemon, "idle", "lock_data")
  /\ UNCHANGED <<halter, holder, sent, robot_id, rf_which_board, rx,
                 locked_game, game, vps, vps_daemon_has_recvd, got>>

DaemonLocks(lock, from, to) ==
  /\ Goes(Daemon, from, to)
  /\ Takes(Daemon, lock)
  /\ UNCHANGED <<halter, sent, robot_id, rf_which_board, rx, locked_game,
                 game, vps, vps_daemon_has_recvd, got>>

DaemonUnlocks(lock, from, to) ==
  /\ Goes(Daemon, from, to)
  /\ Gives(Daemon, lock)
  /\ UNCHANGED <<halter, sent, robot_id, rf_which_board, rx, locked_game,
                 game, vps, vps_daemon_has_recvd, got>>

\* memcpy() to game
DaemonCopy(i, from, to) ==
  /\ Goes(Daemon, from, to)
  /\ game' = [game EXCEPT ![i] = locked_game[i]]
  /\ UNCHANGED <<halter, holder, sent, robot_id, rf_which_board, rx,
                 locked_game, vps, vps_daemon_has_recvd, got>>

\* vps_coords_isnt_zero(), or a position has been seen before.
Real == vps_daemon_has_recvd \/ game[1].n \notin Origin \cup {0}

PublishX ==
  /\ Goes(Daemon, "publish", IF Real THEN "publish_y" ELSE "unlock_data")
  /\ vps' = IF Real THEN [vps EXCEPT !.x = game[1].n] ELSE vps
  /\ UNCHANGED <<halter, holder, sent, robot_id, rf_which_board, rx,
                 locked_game, game, vps_daemon_has_recvd, got>>

PublishY ==
  /\ Goes(Daemon, "publish_y", "publish_them")
  /\ vps' = [vps EXCEPT !.y = game[1].n]
  /\ UNCHANGED <<halter, holder, sent, robot_id, rf_which_board, rx,
                 locked_game, game, vps_daemon_has_recvd, got>>

PublishThem ==
  /\ Goes(Daemon, "publish_them", "unlock_data")
  /\ vps' = [vps EXCEPT !.them = game[2].n]
  /\ vps_daemon_has_recvd' = TRUE
  /\ UNCHANGED <<halter, holder, sent, robot_id, rf_which_board, rx,
                 locked_game, game, got>>

-----------------------------------------------------------------------------
(* The accessors *)

\* vps_data_daemon_init() does not return before a position has been seen.
ReaderCalls(t) ==
  /\ vps_daemon_has_recvd
  /\ Goes(t, "idle", "lock")
  /\ UNCHANGED <<halter, holder, sent, robot_id, rf_which_board, rx,
                 locked_game, game, vps, vps_daemon_has_recvd, got>>

ReaderLocks(t) ==
  /\ Goes(t, "lock", "x")
  /\ Takes(t, "data")
  /\ UNCHANGED <<halter, sent, robot_id, rf_which_board, rx, locked_game,
                 game, vps, vps_daemon_has_recvd, got>>

ReaderReads(t, c, from, to) ==
  /\ Goes(t, from, to)
  /\ got' = [got EXCEPT ![t][c] = vps[c]]
  /\ UNCHANGED <<halter, holder, sent, robot_id, rf_which_board, rx,
                 locked_game, game, vps, vps_daemon_has_recvd>>

ReaderUnlocks(t) ==
  /\ Goes(t, "unlock", "idle")
  /\ Gives(t, "data")
  /\ UNCHANGED <<halter, sent, robot_id, rf_which_board, rx, locked_game,
                 game, vps, vps_daemon_has_recvd, got>>

-----------------------------------------------------------------------------

\* A packet names a robot at most once.
Next ==
  \/ SetRobotId
  \/ \E board \in Board : \E a, b \in {Us, Them, None} :
       /\ a = b => a = None
       /\ Packet(board, <<[id |-> a, n |-> sent + 1],
                          [id |-> b, n |-> sent + 1]>>)
  \/ RfLock
  \/ RfCopy(1, "copy0", "copy1")
  \/ RfCopy(2, "copy1", "unlock")
  \/ RfUnlock
  \/ DaemonWakes
  \/ DaemonLocks("data", "lock_data", "lock_objects")
  \/ DaemonLocks("objects", "lock_objects", "copy0")
  \/ DaemonCopy(1, "copy0", "copy1")
  \/ DaemonCopy(2, "copy1", "unlock_objects")
  \/ DaemonUnlocks("objects", "unlock_objects", "publish")
  \/ PublishX
  \/ PublishY
  \/ PublishThem
  \/ DaemonUnlocks("data", "unlock_data", "idle")
  \/ \E t \in Reader : \/ ReaderCalls(t)
                       \/ ReaderLocks(t)
                       \/ ReaderReads(t, "x", "x", "y")
                       \/ ReaderReads(t, "y", "y", "unlock")
                       \/ ReaderUnlocks(t)

Spec == Init /\ [][Next]_vars

-----------------------------------------------------------------------------
(* Properties *)

\* What is stored as our position is ours and what is stored as the other's is
\* not, whichever places of which packets they came in.
OursIsOurs ==
  /\ locked_game[1] # Blank => locked_game[1].id = Us
  /\ locked_game[2].id # Us

\* An accessor never returns the coordinates of two packets, nor the values
\* from before the first packet.
AccessorsAreWhole ==
  \A t \in Reader :
    pc[t] = "unlock" => got[t].x = got[t].y /\ got[t].x # 0

\* The program sees whole packets, in the order they were sent.
Numbers(c) == [us |-> c[1].n, them |-> c[2].n]
Feed == INSTANCE PositionFeed WITH
  latest <- IF pc[Rf] \in {"copy0", "copy1"} THEN Numbers(rx)
                                             ELSE Numbers(locked_game),
  copied <- IF pc[Daemon] \in {"copy0", "copy1"} THEN Numbers(locked_game)
                                                 ELSE Numbers(game),
  seen <- IF pc[Daemon] \in {"publish_y", "publish_them"}
          THEN Numbers(game) ELSE [us |-> vps.x, them |-> vps.them]
ImplementsFeed == Feed!Spec
=============================================================================
