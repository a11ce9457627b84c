------------------------------ MODULE FtpPool ------------------------------
(***************************************************************************)
(* internal/ftpfs: an FTP server as a file system.  Every open file holds  *)
(* a connection of a pool of limited size.  The modules of the commands    *)
(* extend this one and take the actions below as parts of their own.       *)
(***************************************************************************)
EXTENDS Naturals, FiniteSets

CONSTANT PoolSize    \* --ftp-pool-size; 1 unless it is given

ASSUME FtpPoolAssumption == PoolSize \in Nat \ {0}

VARIABLES
  holding,    \* the goroutines with a file open, each with its connection
  lost        \* how many connections nobody holds and nobody has released

poolVars == <<holding, lost>>

PoolInit == holding = {} /\ lost = 0

\* Open acquires a connection, a new one if it must.  It waits while there is none, and
\* not even a cancelled context ends the wait: Acquire gets context.Background().
HasRoom == Cardinality(holding) + lost < PoolSize
Open(a) ==
  /\ HasRoom
  /\ holding' = holding \cup {a}
  /\ UNCHANGED lost

\* Close releases the connection.
Close(a) == holding' = holding \ {a} /\ UNCHANGED lost

\* The connection is never released: FileOpen fails after it was acquired, or the file
\* is forgotten by whoever opened it.
Lose(a) == holding' = holding \ {a} /\ lost' = lost + 1
=============================================================================
