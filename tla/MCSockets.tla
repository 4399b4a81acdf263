------------------------------ MODULE MCSockets ------------------------------
(* Instances of Sockets for TLC. *)
EXTENDS Sockets, TLC

\* Some bytes, addresses as text, and ports as the host has them.
Samples == {0, 1, 127, 224, 255}
Texts == [1..4 -> Samples]
Ports == [1..2 -> Samples]

Loopback == MakeAddress(<<127, 0, 0, 1>>)

MCOwnNames == {EndpointAt(Loopback, <<10, 26>>)}
MCPeerNames == {EndpointAt(Loopback, <<80, 195>>)}

\* What the conversions between text, host and network order come to.
ASSUME AddressesConvert ==
  \A t \in Texts :
    LET a == MakeAddress(t) IN
      /\ AddressText(a.v4) = t
      /\ AddressV4(ToUint(a.v4)) = a.v4
      /\ ToUint(a.v4)[4] = t[1]
      /\ IsLoopback(a.v4) = (t[1] = 127) /\ IsMulticast(a.v4) = (t[1] \in 224..239)

ASSUME EndpointsConvert ==
  \A p \in Ports, f \in {"v4", "v6"} :
    LET ep == EndpointAt(Loopback, p)
        any == EndpointOf(f, p)
    IN  /\ GetPort(ep) = p /\ GetAddress(ep) = Loopback /\ Protocol(ep) = "v4"
        /\ ep.port = <<p[2], p[1]>> /\ ep.addr = <<127, 0, 0, 1>>
        /\ GetPort(any) = p /\ Protocol(any) = f /\ EndpointUnspecified(any)
        /\ SetAddress(any, Loopback) = ep
        /\ SetPort(EndpointAt(Loopback, <<0, 0>>), p) = ep
        /\ Size(ep) = 16 /\ (f = "v6" => Size(any) = 28)

\* What was put into an option is what is read from it, in the width it has;
\* but the kernel understands a timeout of whole seconds only.
ASSUME OptionsReadBack ==
  /\ \A b \in BOOLEAN : BooleanValue(Boolean(b)) = b
  /\ \A n \in (-3)..3 : IntegerValue(Integer(n)) = n
  /\ \A k \in {-3, -1, 0, 2}, n \in {0, 1, 65535} : Integer(k * Half + n) = k * Half + n
  /\ Integer(Half * 32767 + 65535) = 2147483647
  /\ \A b \in BOOLEAN, n \in {0, 1, 65535, 65536, 65537} :
       Linger(b, n) = [l_onoff |-> Boolean(b), l_linger |-> IF n < 65536 THEN n ELSE n - 65536]
  /\ \A ms \in 0..2100 :
       /\ TimeValue(Time(ms)) = ms
       /\ (KernelTime(Time(ms)) = 1000 * ms) = (ms \in {0, 1000, 2000})

=============================================================================
