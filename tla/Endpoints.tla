------------------------------ MODULE Endpoints ------------------------------
(***************************************************************************)
(* The values of cyan::net::ip: address_v4, address and endpoint.          *)
(*                                                                         *)
(* A number is the sequence of its bytes in memory, on a host that keeps   *)
(* the lowest one first.  The members of an address and of an endpoint are *)
(* in network order, and the functions convert on the way in and out.      *)
(***************************************************************************)
EXTENDS Naturals, Sequences, SequencesExt

Byte == 0..255
Zero(n) == [i \in 1..n |-> 0]

\* htons, htonl, ntohs, ntohl
Swap(number) == Reverse(number)

-----------------------------------------------------------------------------
(* address_v4, by its s_addr *)

AddressV4(uint) == Swap(uint)
ToUint(addr) == Swap(addr)
AddressText(addr) == addr
IsUnspecified(addr) == addr = Zero(4)
IsLoopback(addr) == ToUint(addr)[4] = 127
IsMulticast(addr) == ToUint(addr)[4] \div 16 = 14

\* A text that is none makes inet_pton return 0, which is not looked at, and
\* set no error: the address stays what its constructor made it.
MakeAddressV4(text) == IF text \in [1..4 -> Byte] THEN text ELSE Zero(4)

-----------------------------------------------------------------------------
(* address: there is no way to make one of type ipv6 *)

Address(v4) == [type |-> "ipv4", v4 |-> v4]
NoAddress == Address(Zero(4))
IsV4(address) == address.type = "ipv4"
AddressToUint(address) == IF IsV4(address) THEN ToUint(address.v4) ELSE Zero(4)
MakeAddress(text) == Address(MakeAddressV4(text))

-----------------------------------------------------------------------------
(* endpoint, a socket address: 0 is the family of one that is not set *)

NoEndpoint == [family |-> "0", port |-> Zero(2), addr |-> Zero(4)]

EndpointAt(address, port) ==
  [family |-> "v4", port |-> Swap(port), addr |-> Swap(AddressToUint(address))]

EndpointOf(family, port) == [family |-> family, port |-> Swap(port), addr |-> Zero(4)]

GetPort(ep) == Swap(ep.port)
SetPort(ep, port) == [ep EXCEPT !.port = Swap(port)]

\* Of an endpoint of any other family the address is not known.
GetAddress(ep) == IF ep.family = "v4" THEN Address(AddressV4(Swap(ep.addr))) ELSE NoAddress

\* An endpoint of another family becomes one of IPv4, with the same port.
SetAddress(ep, address) ==
  [ep EXCEPT !.family = "v4", !.addr = Swap(AddressToUint(address))]

EndpointUnspecified(ep) == IsUnspecified(GetAddress(ep).v4)
Protocol(ep) == IF ep.family = "v4" THEN "v4" ELSE "v6"
Size(ep) == IF ep.family = "v4" THEN 16 ELSE 28

=============================================================================
