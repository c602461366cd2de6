------------------------------ MODULE MCMount -------------------------------
(* Every directory of up to three files, on a disk with one FAT32          *)
(* partition; and every table of up to three partitions.  A volume label   *)
(* has no long name.                                                       *)
EXTENDS Mount, FiniteSets

MCDevices == {<<"stdout">>, <<"stdin">>}
MCFiles == {f \in File : f.kind = "label" => f.name = <<>>}
MCDirectories ==
  {d \in UNION {[1 .. n -> MCFiles] : n \in 0 .. 3} :
     \A i, j \in DOMAIN d : d[i].name = d[j].name /\ d[i].name # <<>> => i = j}
MCTables == UNION {[1 .. n -> Partition] : n \in 0 .. 3}
MCDisks ==
  {[gpt |-> TRUE, table |-> <<"fat">>, dir |-> d] : d \in MCDirectories}
    \cup {[gpt |-> g, table |-> t, dir |-> <<[name |-> <<"s">>, kind |-> "file"]>>]
            : g \in BOOLEAN, t \in MCTables}
=============================================================================
