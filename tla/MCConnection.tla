---------------------------- MODULE MCConnection ----------------------------
EXTENDS Connection, TLC

CONSTANTS host, joiner

TwoSides == {host, joiner}
Ids      == (host :> <<7>>) @@ (joiner :> <<9>>)
Movie    == [name |-> <<1, 2, 3>>, fileSize |-> 600, chunkSize |-> 257,
             chunks |-> <<[size |-> 257, hash |-> <<4>>],
                          [size |-> 257, hash |-> <<5>>],
                          [size |-> 86, hash |-> <<6>>]>>]
Addrs    == << <<1, 0>>, <<>>, <<2>> >>
Bytes    == (0 :> <<1>>) @@ (1 :> <<2, 3>>) @@ (2 :> <<>>)
HostOnly == (host :> Bytes) @@ (joiner :> <<>>)
TwoBits  == (host :> <<14>>) @@ (joiner :> <<0>>)

Sync(t, p) == [type |-> MsgSync, time |-> t, state |-> p, unixMs |-> 300]
Request(s) == [type |-> MsgRequest, indices |-> s]
OneWay  == (host :> {Sync(40, 1), Bitfield(host)})
           @@ (joiner :> {Request(<<2, 0, 1>>), [type |-> MsgHave, index |-> 2]})

Nobody   == (host :> {}) @@ (joiner :> {})
=============================================================================
