----------------------------- MODULE MCDnsTracker -----------------------------
EXTENDS DnsTracker, TLC

AddrSymmetry == Permutations(Addr) \cup Permutations(Domain)
=============================================================================
