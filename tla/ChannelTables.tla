--------------------------- MODULE ChannelTables ----------------------------
(***************************************************************************)
(* The checks of rule_engine.h on pipes, fifos and sockets, over the       *)
(* tables that database_server.c keeps for them.  As in RuleEngine a check *)
(* is one step, and its last parameter is its result.                      *)
(*                                                                         *)
(* A pipe is named by (device, inode) and a connection by the unordered    *)
(* pair of its addresses; both are members of Channels here.  A subject id *)
(* stands for its position, which never changes.  The inodes of pipes are  *)
(* below 2^31: GET_PIPE_INDEX and REMOVE_PIPE read them into an int.       *)
(* Whoever opens a fifo is registered; the others would share the id -1.   *)
(*                                                                         *)
(* Positions start at 1, so 0 is the answer -1.  The server does not look  *)
(* whether a position is in an array.  What it then reads is any label;    *)
(* what it then overwrites may be something that nobody misses, or end it, *)
(* at once or later.  An empty array is NULL, so that it ends at once.     *)
(***************************************************************************)
EXTENDS RuleEngine, Integers, SequencesExt

CONSTANT Channels

VARIABLES all_pipe_objects, pipe_ref_map, all_socket_connections

ctvars == <<all_pipe_objects, pipe_ref_map, all_socket_connections>>

IndexOf(table, x) == SelectInSeq(table, LAMBDA row : row.channel = x)

\* get_pipe, get_connection: the row at position i, whatever i is.
Fetched(table, i) == IF i \in DOMAIN table THEN {table[i]} ELSE Label

SameLabel(l, m) == l.readers = m.readers /\ l.writers = m.writers

\* One of the positions that a request names is in no row.
Overwrites == IF all_pipe_objects = <<>> THEN {"stopped"} ELSE {"up", "stopped"}

-----------------------------------------------------------------------------
(* pipe_ref_map *)

MapIndex(s, i) == SelectInSeq(pipe_ref_map, LAMBDA m : m.subject = s /\ m.index = i)

\* increment_pipe_mapping_ref_count, or else add_new_pipe_mapping
Incremented(s, i) ==
  LET m == MapIndex(s, i)
  IN  IF m # 0 THEN [pipe_ref_map EXCEPT ![m].ref_count = @ + 1]
               ELSE Append(pipe_ref_map, [subject |-> s, index |-> i, ref_count |-> 1])

\* decrement_pipe_mapping_ref_count
Decremented(s, i) ==
  LET m == MapIndex(s, i)
  IN  IF m = 0 THEN pipe_ref_map
      ELSE IF pipe_ref_map[m].ref_count > 1
        THEN [pipe_ref_map EXCEPT ![m].ref_count = @ - 1]
        ELSE RemoveAt(pipe_ref_map, m)

\* How many references to the pipe at position i the mappings of S count.
RefCount(maps, S, i) ==
  LET count[n \in 0..Len(maps)] ==
        IF n = 0 THEN 0
        ELSE count[n - 1] +
               IF maps[n].subject \in S /\ maps[n].index = i THEN maps[n].ref_count ELSE 0
  IN  count[Len(maps)]

\* Mutant of CountedCopies: the pipes are not counted once more.
CountedCopies_None(s) == all_pipe_objects

\* copy_pipe_map for each of the mappings of s: the counts ...
CountedCopies(s) ==
  [i \in DOMAIN all_pipe_objects |->
     [all_pipe_objects[i] EXCEPT !.ref_count = @ + RefCount(pipe_ref_map, {s}, i)]]

\* ... and the mappings of t.
CopiedMaps(s, t) ==
  LET copied[n \in 0..Len(pipe_ref_map)] ==
        IF n = 0 THEN pipe_ref_map
        ELSE IF pipe_ref_map[n].subject = s
          THEN Append(copied[n - 1], [pipe_ref_map[n] EXCEPT !.subject = t])
          ELSE copied[n - 1]
  IN  copied[Len(pipe_ref_map)]

\* s has a mapping to a position that is in no row.
Dangling(s) == \E m \in ToSet(pipe_ref_map) :
                 m.subject = s /\ m.index \notin DOMAIN all_pipe_objects

(***************************************************************************)
(* fork_check, which for a known parent ends in copy_subject_info: the     *)
(* child gets a copy of each mapping of its parent, and the pipe at that   *)
(* position as many more references.                                       *)
(***************************************************************************)
fork_check_and_copy(u, child, parent) ==
  LET s == <<u, parent>>
      known == s \in DOMAIN subjects
  IN  \/ /\ fork_check(u, child, parent)
         /\ known /\ Dangling(s) => "up" \in Overwrites
         /\ all_pipe_objects' = IF known THEN CountedCopies(s) ELSE all_pipe_objects
         /\ pipe_ref_map' = IF known THEN CopiedMaps(s, <<u, child>>) ELSE pipe_ref_map
         /\ UNCHANGED all_socket_connections
      \/ /\ known /\ Dangling(s)
         /\ StopServer
         /\ UNCHANGED ctvars

-----------------------------------------------------------------------------
(* pipes *)

create_pipe_check(s, x, ret) ==
  \/ /\ s \notin DOMAIN subjects /\ ret = "stopped"
     /\ StopServer /\ UNCHANGED ctvars
  \/ /\ s \in DOMAIN subjects /\ ret = "allowed"
     /\ server = "up"
     /\ all_pipe_objects' =
          Append(all_pipe_objects, [channel |-> x, ref_count |-> 2,
                                    readers |-> subjects[s].readers,
                                    writers |-> subjects[s].writers])
     /\ pipe_ref_map' = Append(pipe_ref_map, [subject   |-> s,
                                              index     |-> Len(all_pipe_objects) + 1,
                                              ref_count |-> 2])
     /\ UNCHANGED <<revars, all_socket_connections>>

\* Mutant of open_fifo_check: the pipe is not counted when it is known.
open_fifo_check_NoCount(s, x) ==
  LET i == IndexOf(all_pipe_objects, x)
  IN  /\ server = "up"
      /\ IF i = 0
           THEN /\ all_pipe_objects' =
                     Append(all_pipe_objects, [channel |-> x, ref_count |-> 1,
                                               readers |-> Users, writers |-> {}])
                /\ pipe_ref_map' = Append(pipe_ref_map,
                     [subject |-> s, index |-> Len(all_pipe_objects) + 1, ref_count |-> 1])
           ELSE /\ all_pipe_objects' = all_pipe_objects
                /\ pipe_ref_map' = Incremented(s, i)
      /\ UNCHANGED <<revars, all_socket_connections>>

open_fifo_check(s, x) ==
  LET i == IndexOf(all_pipe_objects, x)
  IN  /\ server = "up"
      /\ IF i = 0
           THEN /\ all_pipe_objects' =
                     Append(all_pipe_objects, [channel |-> x, ref_count |-> 1,
                                               readers |-> Users, writers |-> {}])
                /\ pipe_ref_map' = Append(pipe_ref_map,
                     [subject |-> s, index |-> Len(all_pipe_objects) + 1, ref_count |-> 1])
           ELSE /\ all_pipe_objects' = [all_pipe_objects EXCEPT ![i].ref_count = @ + 1]
                /\ pipe_ref_map' = Incremented(s, i)
      /\ UNCHANGED <<revars, all_socket_connections>>

(***************************************************************************)
(* pipe_read_check.  A label that needs no update is "denied": ret_val     *)
(* stays 0 unless update_subject_label is called.                          *)
(***************************************************************************)
pipe_read_check(s, x, ret) ==
  LET i == IndexOf(all_pipe_objects, x)
  IN  /\ UNCHANGED ctvars
      /\ \/ /\ s \notin DOMAIN subjects \/ (i = 0 /\ all_pipe_objects = <<>>)
            /\ ret = "stopped"
            /\ StopServer
         \/ /\ s \in DOMAIN subjects /\ (i # 0 \/ all_pipe_objects # <<>>)
            /\ server = "up"
            /\ \E row \in Fetched(all_pipe_objects, i) :
                 \/ /\ \/ subjects[s].owner \notin row.readers
                       \/ SameLabel(subjects[s], row)
                    /\ ret = "denied"
                    /\ UNCHANGED revars
                 \/ /\ subjects[s].owner \in row.readers
                    /\ ~SameLabel(subjects[s], row)
                    /\ ret = "allowed"
                    /\ subjects' = [subjects EXCEPT ![s] = Raise(@, row)]
                    /\ UNCHANGED <<objects, server>>

\* Mutants of RaisedRow: the row stays; its readers become the union.
RaisedRow_Not(table, i, l) == table
RaisedRow_Union(table, i, l) ==
  [table EXCEPT ![i].readers = @ \cup l.readers, ![i].writers = @ \cup l.writers]

\* update_pipe_label, update_connection_label
RaisedRow(table, i, l) == [table EXCEPT ![i] = Raise(@, l)]

pipe_write_check(s, x, ret) ==
  LET i == IndexOf(all_pipe_objects, x)
  IN  /\ UNCHANGED <<pipe_ref_map, all_socket_connections>>
      /\ \/ /\ s \notin DOMAIN subjects \/ i = 0
            /\ ret = "stopped"
            /\ StopServer
            /\ UNCHANGED all_pipe_objects
         \/ /\ s \in DOMAIN subjects
            /\ i # 0 \/ "up" \in Overwrites
            /\ ret = "allowed"
            /\ server = "up"
            /\ all_pipe_objects' = IF i = 0 THEN all_pipe_objects
                                   ELSE RaisedRow(all_pipe_objects, i, subjects[s])
            /\ UNCHANGED revars

\* Mutant of WithoutOne: the last reference is taken away, the row is not.
WithoutOne_NoRemoval(i) == [all_pipe_objects EXCEPT ![i].ref_count = @ - 1]

\* remove_pipe: later pipes move down one place.
WithoutOne(i) ==
  IF all_pipe_objects[i].ref_count > 1
    THEN [all_pipe_objects EXCEPT ![i].ref_count = @ - 1]
    ELSE RemoveAt(all_pipe_objects, i)

pipe_close_check(s, x) ==
  LET i == IndexOf(all_pipe_objects, x)
  IN  /\ server = "up"
      /\ all_pipe_objects' = IF i = 0 THEN all_pipe_objects ELSE WithoutOne(i)
      /\ pipe_ref_map' = Decremented(s, i)
      /\ UNCHANGED <<revars, all_socket_connections>>

-----------------------------------------------------------------------------
(* sockets *)

(***************************************************************************)
(* add_connection.  The second peer is overwritten with the first.         *)
(***************************************************************************)
WithConnection(s, x) ==
  LET i == IndexOf(all_socket_connections, x)
      l == subjects[s]
      raised == Raise(all_socket_connections[i], l)
  IN  IF i = 0
        THEN Append(all_socket_connections,
                    [channel |-> x, num_peers |-> 1, peer_ids |-> <<s>>,
                     readers |-> l.readers, writers |-> l.writers])
        ELSE [all_socket_connections EXCEPT
                ![i] = [raised EXCEPT !.num_peers = @ + 1,
                                      !.peer_ids = <<@[1], @[1]>>]]

\* connect_check, accept_check
connection_check(s, x, ret) ==
  /\ server = "up"
  /\ UNCHANGED <<revars, all_pipe_objects, pipe_ref_map>>
  /\ \/ /\ s \notin DOMAIN subjects /\ ret = "error"
        /\ UNCHANGED all_socket_connections
     \/ /\ s \in DOMAIN subjects /\ ret = "allowed"
        /\ all_socket_connections' = WithConnection(s, x)

send_check(s, x, ret) ==
  LET i == IndexOf(all_socket_connections, x)
  IN  /\ server = "up"
      /\ UNCHANGED <<revars, all_pipe_objects, pipe_ref_map>>
      /\ \/ /\ s \notin DOMAIN subjects \/ i = 0
            /\ ret = "error"
            /\ UNCHANGED all_socket_connections
         \/ /\ s \in DOMAIN subjects /\ i # 0
            /\ ret = "allowed"
            /\ all_socket_connections' = RaisedRow(all_socket_connections, i, subjects[s])

recv_check(s, x, ret) ==
  LET i   == IndexOf(all_socket_connections, x)
      row == all_socket_connections[i]
  IN  /\ server = "up"
      /\ UNCHANGED ctvars
      /\ \/ /\ s \notin DOMAIN subjects \/ i = 0
            /\ ret = "error"
            /\ UNCHANGED revars
         \/ /\ s \in DOMAIN subjects /\ i # 0
            /\ \/ subjects[s].owner \notin row.readers
               \/ SameLabel(subjects[s], row)
            /\ ret = "denied"
            /\ UNCHANGED revars
         \/ /\ s \in DOMAIN subjects /\ i # 0
            /\ subjects[s].owner \in row.readers /\ ~SameLabel(subjects[s], row)
            /\ ret = "allowed"
            /\ subjects' = [subjects EXCEPT ![s] = Raise(@, row)]
            /\ UNCHANGED <<objects, server>>

\* socket_close_check, remove_peer_from_connection
socket_close_check(s, x) ==
  LET i   == IndexOf(all_socket_connections, x)
      row == all_socket_connections[i]
  IN  /\ server = "up"
      /\ UNCHANGED <<revars, all_pipe_objects, pipe_ref_map>>
      /\ all_socket_connections' =
           IF i = 0 \/ s \notin ToSet(row.peer_ids) THEN all_socket_connections
           ELSE IF row.num_peers > 1
             THEN [all_socket_connections EXCEPT ![i].num_peers = @ - 1]
             ELSE RemoveAt(all_socket_connections, i)

-----------------------------------------------------------------------------
(* Properties *)

(***************************************************************************)
(* The rows of the three tables; no count is ever 0 while its row is kept. *)
(***************************************************************************)
ChannelRow == [channel : Channels, ref_count : Nat \ {0},
               readers : UserSet, writers : UserSet]
RefMapRow == [subject : SubjectIds, index : Nat \ {0}, ref_count : Nat \ {0}]
ConnectionRow == [channel : Channels, num_peers : Nat \ {0}, peer_ids : Seq(SubjectIds),
                  readers : UserSet, writers : UserSet]

CTTypeOK ==
  /\ all_pipe_objects \in Seq(ChannelRow)
  /\ pipe_ref_map \in Seq(RefMapRow)
  /\ all_socket_connections \in Seq(ConnectionRow)

(***************************************************************************)
(* As long as a channel stays in its table, its label only rises: no       *)
(* writer lowers what an earlier one raised.                               *)
(***************************************************************************)
RowsRise(table, newer) ==
  \A x \in Channels :
    IndexOf(table, x) # 0 /\ IndexOf(newer, x) # 0 =>
      FlowsTo(table[IndexOf(table, x)], newer[IndexOf(newer, x)])

ChannelLabelsOnlyRise ==
  [][/\ RowsRise(all_pipe_objects, all_pipe_objects')
     /\ RowsRise(all_socket_connections, all_socket_connections')]_ctvars

(***************************************************************************)
(* The two places where references are counted agree: a pipe has as many   *)
(* as the mappings of all subjects to its position say.                    *)
(***************************************************************************)
CountsAgree ==
  \A i \in DOMAIN all_pipe_objects :
    all_pipe_objects[i].ref_count = RefCount(pipe_ref_map, SubjectIds, i)
=============================================================================
