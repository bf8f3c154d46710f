------------------------------ MODULE MCAttestor ------------------------------
EXTENDS Attestor

CONSTANTS AleoA, AleoB, Token   \* values of Aleo's types

(* The process: the packets of a block of two, packets in a gap, and one   *)
(* whose destination has a start number and is no destination.             *)

MCChains == <<"aleo", "ethereum">>
MCSource == "e1" :> "ethereum" @@ "e2" :> "ethereum" @@ "e3" :> "ethereum" @@ "a1" :> "aleo"
MCDest == "e1" :> "aleo" @@ "e2" :> "aleo" @@ "e3" :> "aleo" @@ "a1" :> "ethereum"
MCPosition == "e1" :> 1 @@ "e2" :> 2 @@ "e3" :> 2 @@ "a1" :> 1
MCDestChains == "aleo" :> {} @@ "ethereum" :> {"aleo"}
MCStartSeq == "aleo" :> {"ethereum"} @@ "ethereum" :> {}
Start(done, failed, new, asked, n) ==
    [completed |-> done, retry |-> failed, ahead |-> new, missed |-> asked, rare |-> n]

MCStarts ==
    {Start({}, {}, {"e2", "e3"}, {}, 1), Start({}, {"e1"}, {"e2"}, {}, 1),
     Start({"e1", "e3"}, {}, {}, {}, 2), Start({}, {}, {"e1"}, {"e1"}, 1),
     Start({}, {}, {}, {"e1", "e2"}, 0), Start({}, {}, {"a1"}, {}, 1)}

(* Packets: one, and one that differs from it for each field *)

Variants(p, addr, text, other, chain) ==
    {p} \cup {[p EXCEPT !.version = 2], [p EXCEPT !.sequence = 2], [p EXCEPT !.height = 2],
              [p EXCEPT !.srcChain = 3], [p EXCEPT !.dstChain = chain], [p EXCEPT !.amount = 2],
              [p EXCEPT !.amount = 4]}
        \cup {[p EXCEPT ![f] = other] : f \in addr}
        \cup {[p EXCEPT ![f] = <<Val(AleoB, "address")>>] : f \in text}

MCToEthereum ==
    Variants([version |-> 1, sequence |-> 1, height |-> 1, amount |-> 1,
              srcChain |-> 1, dstChain |-> 2,
              srcAddr |-> <<Val(AleoA, "address")>>, sender |-> <<Val(AleoA, "address")>>,
              dstAddr |-> <<0, 1>>, token |-> <<1, 1>>, receiver |-> <<0, 1>>],
             {"dstAddr", "token", "receiver"}, {"srcAddr", "sender"}, <<1, 0>>, 3)

MCToAleo ==
    Variants([version |-> 1, sequence |-> 1, height |-> 1, amount |-> 1,
              srcChain |-> 2, dstChain |-> 1,
              srcAddr |-> <<0, 1>>, sender |-> <<0, 1>>,
              dstAddr |-> <<Val(AleoA, "address")>>, token |-> <<Val(Token, "field")>>,
              receiver |-> <<Val(AleoA, "address")>>],
             {"srcAddr", "sender"}, {"dstAddr", "token", "receiver"}, <<1, 0>>, 4)

MCServiceChains == <<"aleo", "ethereum", "ethereum", "aleo">>

(* The configuration *)

MCAmbiguous == [f \in {"verulinkBolt.db", "verulink.log"} |->
                  IF f = "verulinkBolt.db" THEN {"/db/verulinkBolt.db"} ELSE {"/log/verulink.log"}]
MCDefaultTimes == "aleo" :> [validity |-> 24, block |-> 10, retry |-> 5, prune |-> 6]
               @@ "ethereum" :> [validity |-> 24, block |-> 12, retry |-> 5, prune |-> 6]
MCDisk == "/db" :> "dir" @@ "/file" :> "file"

ConfiguredChain(name, id) ==
    [name : {name}, chain_id : {id}, dest_chains : {{}, {"aleo"}, {"ethereum"}, {"solana"}},
     start_seq : {<<>>, "aleo" :> 7, "ethereum" :> 7}, start_height : {0},
     node_url : IF name = "aleo" THEN {<<"url", "testnet">>, <<"url">>} ELSE {<<"url">>},
     finality_height : {1, 9},
     pkt_validity_wait_dur : {0, 40}, average_block_gen_dur : {0, 5},
     retry_packet_wait_dur : {0}, prune_base_seq_num_wait_dur : {0}]

MCFiles ==
    {[chains |-> <<aleo, ethereum>>, workers |-> 0, scheme |-> scheme, db_dir |-> db,
      log |-> [output_dir |-> "/log", encoding |-> "json"]] :
        aleo \in ConfiguredChain("aleo", 1), ethereum \in ConfiguredChain("ethereum", 2),
        scheme \in {"https", "ftp"}, db \in {"", "/db"}}
MCFlags ==
    [db_dir : {"", "/file", "/db/verulinkBolt.db"}, log_dir : {""}, clean : BOOLEAN,
     log_enc : {""}]
===============================================================================
