---------------------------- MODULE MCAtChannel ----------------------------
(* Instances of AtChannel for TLC. *)
EXTENDS AtChannel

\* One command of each kind.  "creg" is also the prefix of an unsolicited line.
MCPlain   == [type |-> "NO_RESULT", prefix |-> NoPrefix, sms |-> FALSE]
MCSingle  == [type |-> "SINGLELINE", prefix |-> "creg", sms |-> FALSE]
MCNumeric == [type |-> "NUMERIC", prefix |-> Digit, sms |-> FALSE]
MCMulti   == [type |-> "MULTILINE", prefix |-> "creg", sms |-> FALSE]
MCSms     == [type |-> "SINGLELINE", prefix |-> "cmgs", sms |-> TRUE]

MCCommands == {MCPlain, MCSingle, MCNumeric, MCMulti, MCSms}
MCPlainOnly == {MCPlain}
MCPrefixes == {Digit, NoPrefix, HandshakeCommand.prefix, "creg", "cmgs"}
MCUnsolPrefixes == {"creg"}
MCNoUnsol == {}
============================================================================
