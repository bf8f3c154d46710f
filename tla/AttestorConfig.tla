---------------------------- MODULE AttestorConfig ----------------------------
(***************************************************************************)
(* The chain service's configuration (attestor/chainService/config) and    *)
(* the clients made from it (NewClient of both chains).                    *)
(*                                                                         *)
(* `file' is the YAML file, `flags' the command line; an absent value is   *)
(* None, or 0 for a number.  Times are in seconds.                         *)
(***************************************************************************)
EXTENDS Integers, Sequences, FiniteSetsExt

CONSTANTS
    None,           \* the empty string
    Ambiguous,      \* file name -> paths that contain it
    DefaultTimes,   \* chain name -> times taken where the file has none
    Files, Flags,   \* configuration files and command lines to consider
    Disk            \* paths that exist, each "dir" or "file"

(* A chain has the members of ChainConfig; its times and heights are not   *)
(* negative, and the default time of a block is not zero.                  *)
ChainFields == {"name", "chain_id", "dest_chains", "start_seq", "node_url", "finality_height",
                "pkt_validity_wait_dur", "average_block_gen_dur"}

ASSUME ConfigAssumption ==
    /\ \A file \in Files : DOMAIN file.chains = 1 .. Len(file.chains) /\ Len(file.chains) \in Nat
    /\ \A file \in Files : \A i \in DOMAIN file.chains :
         LET chain == file.chains[i]
         IN  /\ chain = [f \in DOMAIN chain |-> chain[f]] /\ ChainFields \subseteq DOMAIN chain
             /\ chain.finality_height \in Nat
             /\ chain.pkt_validity_wait_dur \in Nat /\ chain.average_block_gen_dur \in Nat
    /\ \A name \in {"aleo", "ethereum"} :
         DefaultTimes[name].validity \in Nat /\ DefaultTimes[name].block \in Nat \ {0}

Invalid == [invalid |-> TRUE]     \* InitConfig returns an error, or a client panics

OrDefault(value, default) == IF value = 0 THEN default ELSE value

-----------------------------------------------------------------------------
(* validateChainConfig: the destinations are named in the file and known   *)
(* by their chain id afterwards.  A name that occurs twice has the id of   *)
(* its last chain.                                                         *)
chainNameToChainID(chains) ==
    [name \in {chains[i].name : i \in DOMAIN chains} |->
        chains[Max({i \in DOMAIN chains : chains[i].name = name})].chain_id]

validateChainConfig(chains) ==
    LET id == chainNameToChainID(chains)
    IN  IF \E i \in DOMAIN chains : ~(chains[i].dest_chains \cup DOMAIN chains[i].start_seq
                                      \subseteq DOMAIN id)
        THEN Invalid
        ELSE [chains |->
                [i \in DOMAIN chains |->
                   [chains[i] EXCEPT
                      !.dest_chains = {id[name] : name \in @},
                      !.start_seq = [d \in {id[name] : name \in DOMAIN @} |->
                                       @[CHOOSE name \in DOMAIN @ : id[name] = d]]]]]

-----------------------------------------------------------------------------
(* getPath: the flag before the file before the working directory. *)

(* validateDirectory: a directory that is missing is made. *)
validateDirectory(path, fileName) ==
    path \notin Ambiguous[fileName] /\ (path \in DOMAIN Disk => Disk[path] = "dir")

getPath(fromFlag, fromFile, fileName) ==
    LET path == IF fromFlag # None THEN fromFlag ELSE IF fromFile # None THEN fromFile ELSE "."
    IN  IF path = "." \/ validateDirectory(path, fileName) THEN <<path, fileName>> ELSE <<>>

InitConfig(file, flags) ==
    LET checked == validateChainConfig(file.chains)
        dbPath  == getPath(flags.db_dir, file.db_dir, "verulinkBolt.db")
        logPath == getPath(flags.log_dir, file.log.output_dir, "verulink.log")
    IN  IF checked = Invalid \/ file.scheme \notin {"http", "https"} \/ <<>> \in {dbPath, logPath}
        THEN Invalid
        ELSE [chains       |-> checked.chains,
              workers      |-> OrDefault(file.workers, 10),
              dbPath       |-> dbPath,
              logPath      |-> logPath,
              removed      |-> IF flags.clean THEN {dbPath} ELSE {},
              encoding     |-> IF flags.log_enc # None THEN flags.log_enc ELSE file.log.encoding]

-----------------------------------------------------------------------------
(* NewClient.  Only "aleo" and "ethereum" are registered; any other name   *)
(* panics in initPacketFeeder.                                             *)

(* Mutant of CreatedNamespaces: the namespaces of the start numbers only. *)
NamespacesOfStarts(chain) == {"rpns", "bsns"} \X DOMAIN chain.start_seq

CreatedNamespaces(chain) == {"rpns", "bsns"} \X chain.dest_chains

(* Where the feed starts: on Aleo one sequence number per destination,     *)
(* also for a start number that has no destination.                        *)
FirstSequences(chain) ==
    [d \in chain.dest_chains \cup IF chain.name = "aleo" THEN DOMAIN chain.start_seq ELSE {} |->
        IF chain.name = "aleo" /\ d \in DOMAIN chain.start_seq THEN chain.start_seq[d] ELSE 1]

(* The blocks a packet must be deep; the block time is fixed on Ethereum. *)
waitHeight(chain) ==
    LET default  == DefaultTimes[chain.name]
        validity == OrDefault(chain.pkt_validity_wait_dur, default.validity)
        block    == IF chain.name = "aleo" THEN OrDefault(chain.average_block_gen_dur, default.block)
                    ELSE default.block
    IN  Max({validity \div block, chain.finality_height})

NewClient(chain) ==
    IF chain.name \notin {"aleo", "ethereum"} \/ (chain.name = "aleo" /\ Len(chain.node_url) # 2)
    THEN Invalid
    ELSE [name       |-> chain.name,
          chainID    |-> chain.chain_id,
          dests      |-> DOMAIN FirstSequences(chain),
          starts     |-> FirstSequences(chain),
          height     |-> chain.start_height,
          waitHeight |-> waitHeight(chain),
          namespaces |-> CreatedNamespaces(chain),
          retryDur   |-> OrDefault(chain.retry_packet_wait_dur, DefaultTimes[chain.name].retry),
          pruneDur   |-> OrDefault(chain.prune_base_seq_num_wait_dur, DefaultTimes[chain.name].prune)]

-----------------------------------------------------------------------------
(* Feeds for which NewClient has not made the buckets that they read and   *)
(* that managePacket writes.                                               *)
WithoutNamespaces(client) ==
    {d \in client.dests : ~({"rpns", "bsns"} \X {d} \subseteq client.namespaces)}

(* The database and the log of an accepted configuration are two files;    *)
(* every feed, if its client is made, is for a configured chain and waits  *)
(* for finality.  Every feed to a destination has its buckets.  Nothing    *)
(* checks the start numbers against the destinations: on Aleo, and there   *)
(* only, one for another chain gives a feed without buckets.               *)
FeedsHaveNamespaces ==
    \A file \in Files, flags \in Flags :
        LET config == InitConfig(file, flags)
        IN  config # Invalid =>
              /\ config.dbPath # config.logPath
              /\ \A i \in DOMAIN config.chains :
                   LET chain == config.chains[i]
                       client == NewClient(chain)
                   IN  client # Invalid =>
                         /\ WithoutNamespaces(client) =
                              IF chain.name = "aleo" THEN DOMAIN chain.start_seq \ chain.dest_chains
                              ELSE {}
                         /\ client.dests \subseteq
                              {config.chains[j].chain_id : j \in DOMAIN config.chains}
                         /\ client.waitHeight >= chain.finality_height
===============================================================================
