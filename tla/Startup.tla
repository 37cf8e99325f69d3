------------------------------- MODULE Startup -------------------------------
(***************************************************************************)
(* The main thread from the configuration file to the end of main():       *)
(* src/src/main.c, src/src/core/configure.c, get_ipv4_server_fd            *)
(* (server.c).  The loop itself is Reactor's; here it may end at any time. *)
(*                                                                         *)
(* A configuration file is the set of the tables and keys it has, and a    *)
(* value is "given" by the file or the "default".                          *)
(***************************************************************************)
EXTENDS Integers

CONSTANTS
    ConfigFiles,   \* the files that toml_parse_file accepts
    MaxFaults      \* bound of the model: calls that fail and do not end the process

VARIABLES
    phase,         \* where the main thread is
    file,          \* toml_configure
    config,        \* server_config and core_config, as far as they are set
    logger,        \* "none", "open", "closed"
    pool,          \* thdpool: "none", "running"
    table,         \* the path table: "none", "ready", "freed"
    listener,      \* server_fd: "none", "open", "closed"
    signalled,     \* loop_terminal
    status,        \* "running"; what main() or exit() has returned; "killed"
    faults, alive

mainVars == <<phase, file, config, logger, pool, table, listener, signalled, status>>

MainInit ==
    /\ phase = "parse" /\ file = {}
    /\ config = [k \in {"host", "port", "base_dir", "handle_threads", "listen_que", "max_events"}
                    |-> "unset"]
    /\ logger = "none" /\ pool = "none" /\ table = "none" /\ listener = "none"
    /\ signalled = FALSE /\ status = "running" /\ faults = 0 /\ alive = TRUE

Fault == faults < MaxFaults /\ faults' = faults + 1

\* Mutant: main() closes the logger and the table before it ends the pool.
PoolLast ==
    [parse |-> "log", log |-> "server", server |-> "core", core |-> "pool", pool |-> "table",
     table |-> "socket", socket |-> "signal", signal |-> "loop", loop |-> "close",
     close |-> "config", config |-> "cache", cache |-> "join", join |-> "return"]

\* The calls of initial() and main(), each with the one after it.
Following ==
    [parse |-> "log", log |-> "server", server |-> "core", core |-> "pool", pool |-> "table",
     table |-> "socket", socket |-> "signal", signal |-> "loop", loop |-> "close",
     close |-> "join", join |-> "config", config |-> "cache", cache |-> "return"]

In(p)   == alive /\ phase = p
Advance == phase' = Following[phase]

\* exit(n), or a return of main().
Ends(n) == status' = n /\ alive' = FALSE

-----------------------------------------------------------------------------
(* initial().                                                              *)

ParseConfigFile ==
    /\ In("parse")
    /\ \/ file' \in ConfigFiles /\ Advance /\ UNCHANGED <<status, alive>>
       \/ Ends("failure") /\ UNCHANGED <<phase, file>>
    /\ UNCHANGED <<config, logger, pool, table, listener, signalled, faults>>

ConfigLog ==
    /\ In("log")
    /\ logger' = "open" /\ Advance
    /\ UNCHANGED <<file, config, pool, table, listener, signalled, status, faults, alive>>

Has(k)   == k \in file
Value(k) == IF Has(k) THEN "given" ELSE "default"

\* Without a base_dir the host and the port are set before the process ends.
ConfigServer ==
    /\ In("server")
    /\ IF Has("server")
       THEN config' = [config EXCEPT !.host = Value("host"), !.port = Value("port"),
                                     !.base_dir = IF Has("base_dir") THEN "given" ELSE "unset"]
       ELSE UNCHANGED config
    /\ IF Has("server") /\ Has("base_dir") THEN Advance /\ UNCHANGED <<status, alive>>
                                          ELSE Ends("failure") /\ UNCHANGED phase
    /\ UNCHANGED <<file, logger, pool, table, listener, signalled, faults>>

\* max_events is read from the key listen_que.
ConfigCore ==
    /\ In("core")
    /\ IF Has("core")
       THEN /\ config' = [config EXCEPT !.handle_threads = Value("handle_threads"),
                                        !.listen_que = Value("listen_que"),
                                        !.max_events = Value("listen_que")]
            /\ Advance /\ UNCHANGED <<status, alive>>
       ELSE Ends("failure") /\ UNCHANGED <<phase, config>>
    /\ UNCHANGED <<file, logger, pool, table, listener, signalled, faults>>

\* thdpool_initial(), whose result nobody looks at.
CreatePool ==
    /\ In("pool")
    /\ \/ pool' = "running" /\ UNCHANGED faults
       \/ Fault /\ UNCHANGED pool
    /\ Advance
    /\ UNCHANGED <<file, config, logger, table, listener, signalled, status, alive>>

\* resource_getter_initial(), whose result nobody looks at.
CreateTable ==
    /\ In("table")
    /\ \/ table' = "ready" /\ UNCHANGED faults
       \/ Fault /\ UNCHANGED table
    /\ Advance
    /\ UNCHANGED <<file, config, logger, pool, listener, signalled, status, alive>>

-----------------------------------------------------------------------------
(* main().                                                                 *)

\* get_ipv4_server_fd.  A socket that has been made is closed if a later call
\* fails, save when that is setsockopt().
OpenSocket ==
    /\ In("socket")
    /\ \/ listener' = "open" /\ Advance /\ UNCHANGED <<status, alive>>
       \/ listener' \in {"none", "open", "closed"} /\ Ends("failure") /\ UNCHANGED phase
    /\ UNCHANGED <<file, config, logger, pool, table, signalled, faults>>

SetSignal ==
    /\ In("signal")
    /\ \/ Advance /\ UNCHANGED <<status, alive>>
       \/ Ends("failure") /\ UNCHANGED phase
    /\ UNCHANGED <<file, config, logger, pool, table, listener, signalled, faults>>

\* SIGINT: without a handler it ends the process.
Handled == phase \in {"loop", "close", "join", "config", "cache", "return"}
Signal ==
    /\ alive /\ ~signalled
    /\ IF Handled THEN signalled' = TRUE /\ UNCHANGED <<status, alive>>
                  ELSE Ends("killed") /\ UNCHANGED signalled
    /\ UNCHANGED <<phase, file, config, logger, pool, table, listener, faults>>

\* handle_ipv4_main_loop returns.
LoopEnds ==
    /\ In("loop") /\ Advance
    /\ UNCHANGED <<file, config, logger, pool, table, listener, signalled, status, faults, alive>>

CloseSocket ==
    /\ In("close") /\ listener' = "closed" /\ Advance
    /\ UNCHANGED <<file, config, logger, pool, table, signalled, status, faults, alive>>

\* thdpool_release returns when the running jobs have ended.
JoinPool(jobsEnded) ==
    /\ In("join") /\ jobsEnded
    /\ pool' = "none" /\ Advance
    /\ UNCHANGED <<file, config, logger, table, listener, signalled, status, faults, alive>>

\* release_config_file.
CloseConfig ==
    /\ In("config")
    /\ logger' = "closed" /\ file' = {} /\ Advance
    /\ UNCHANGED <<config, pool, table, listener, signalled, status, faults, alive>>

\* resource_getter_release, which has nothing to do without a table.
FreeTable ==
    /\ In("cache")
    /\ table' = IF table = "none" THEN "none" ELSE "freed"
    /\ Advance
    /\ UNCHANGED <<file, config, logger, pool, listener, signalled, status, faults, alive>>

MainReturns ==
    /\ In("return") /\ Ends("success")
    /\ UNCHANGED <<phase, file, config, logger, pool, table, listener, signalled, faults>>

Releasing(jobsEnded) ==
    \/ CloseSocket \/ JoinPool(jobsEnded) \/ CloseConfig \/ FreeTable \/ MainReturns

Main(jobsEnded) ==
    \/ ParseConfigFile \/ ConfigLog \/ ConfigServer \/ ConfigCore \/ CreatePool \/ CreateTable
    \/ OpenSocket \/ SetSignal \/ Signal \/ LoopEnds
    \/ Releasing(jobsEnded)
=============================================================================
