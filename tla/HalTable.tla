------------------------------ MODULE HalTable ------------------------------
(***************************************************************************)
(* The ARP table of the backends that keep it in a std::map.               *)
(***************************************************************************)
EXTENDS HalApi

VARIABLE arp_table   \* triples (port, address, MAC); one MAC for a port and an address

\* arp_table[(ip, port)] = mac, with one entry or many.
Put(entries) ==
  arp_table' = {t \in arp_table : \A e \in entries : <<t[1], t[2]>> # <<e[1], e[2]>>} \cup entries

\* arp_table.find: an entry or nothing.
Known(i, ip) == {t \in arp_table : t[1] = i /\ t[2] = ip}

=============================================================================
