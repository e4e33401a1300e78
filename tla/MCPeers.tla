-------------------------------- MODULE MCPeers --------------------------------
(* Two or three devices; the callers' plans are the settings below. *)
EXTENDS PeerExchange, TLC
CONSTANTS a, b, c

Nobody == [expected |-> 2, listen |-> {}, discover |-> {}, lan |-> {},
           remote |-> [d \in Device |-> <<>>], publish |-> {}, allowed |-> {},
           fetch |-> {}, relay |-> {}, losses |-> 0]
Two == [Nobody EXCEPT !.expected = 1]

\* Two devices look for each other at once.
Pair == [Two EXCEPT !.listen = {a, b}, !.discover = {a, b}, !.lan = {a, b}]

\* One looks for the other and publishes; b's old relay holds its port.
Share == [Two EXCEPT !.listen = {a, b}, !.discover = {a}, !.lan = {a, b},
                     !.publish = {a}, !.fetch = {b}, !.relay = {b}, !.losses = 1]

\* a is given the address of b.
Remote == [Two EXCEPT !.listen = {b}, !.discover = {a}, !.losses = 1,
                      !.remote = [@ EXCEPT ![a] = <<b>>]]

\* Three devices; a is given its own address and that of b, which it shares a
\* subnet with.
Trio == [Nobody EXCEPT !.listen = {b, c}, !.discover = {a}, !.lan = Device,
                       !.remote = [@ EXCEPT ![a] = <<a, b>>], !.losses = 1]

\* Two devices look for a third, which cannot call them back.
Called == [Nobody EXCEPT !.listen = {a}, !.discover = {b, c}, !.lan = {a}, !.losses = 1]

\* b looks for a, and both listen: they call each other back while c is missing.
Twice == [Nobody EXCEPT !.listen = {a, b}, !.discover = {b}, !.lan = {a}]

\* a publishes for b and c, or for b and a device that is not there.
Trusted == [Nobody EXCEPT !.publish = {a}, !.allowed = {b, c}, !.fetch = {b, c}, !.losses = 1]
Strange == [Trusted EXCEPT !.allowed = {b}]

RemoteOnly == {Remote}

Meetings == {Pair, Share, Remote, Trio, Called, Twice, Trusted, Strange}
================================================================================
