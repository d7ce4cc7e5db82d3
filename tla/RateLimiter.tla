---------------------------- MODULE RateLimiter ----------------------------
(***************************************************************************)
(* The per-address limit on HTTP requests (tesseract-api/src/              *)
(* rate_limiter.rs).  Instants are kept as ages in ticks, which stop       *)
(* growing once the window has passed.                                     *)
(***************************************************************************)
EXTENDS Naturals, Sequences

CONSTANTS Ips,             \* addresses of forwarding headers, and Localhost
          Localhost,
          max_requests, window_duration
ASSUME LimitsAssumption ==
  Localhost \in Ips /\ max_requests \in Nat /\ window_duration \in Nat \ {0}

VARIABLES windows,     \* ip -> <<>> or <<the Window>>
          admitted     \* history: ip -> age -> requests admitted that long ago

Ages == 0..window_duration
LimiterInit ==
  /\ windows = [ip \in Ips |-> <<>>]
  /\ admitted = [ip \in Ips |-> [a \in Ages |-> 0]]

\* The window check leaves behind: a passed one starts again.  Refused requests
\* are counted too.
Started == [age |-> 0, count |-> 1]

\* Mutant of window_after: insert for entry().or_insert, every request starts anew.
window_after_Insert(ip) == Started

window_after(ip) ==
  IF windows[ip] = <<>> THEN Started
  ELSE LET w == windows[ip][1]
       IN  IF w.age > window_duration THEN Started ELSE [w EXCEPT !.count = @ + 1]

\* check.
Allowed(ip) == window_after(ip).count <= max_requests
check(ip) ==
  /\ windows' = [windows EXCEPT ![ip] = <<window_after(ip)>>]
  /\ admitted' = IF Allowed(ip) THEN [admitted EXCEPT ![ip][0] = @ + 1] ELSE admitted

\* Time passes.
Tick ==
  /\ \E ip \in Ips : windows[ip] # <<>> /\ windows[ip][1].age <= window_duration
  /\ windows' = [ip \in Ips |-> IF windows[ip] = <<>> THEN <<>>
                   ELSE <<[windows[ip][1] EXCEPT !.age = IF @ > window_duration THEN @ ELSE @ + 1]>>]
  /\ admitted' = [ip \in Ips |-> [a \in Ages |-> IF a = 0 THEN 0 ELSE admitted[ip][a - 1]]]

\* Below(f)[n]: the sum of f over the ages below n.
Below(f) ==
  LET sum[n \in 0..window_duration + 1] == IF n = 0 THEN 0 ELSE sum[n - 1] + f[n - 1] IN sum

\* Requests admitted for an address within one window length of now.
Recent(ip) == Below(admitted[ip])[window_duration + 1]
=============================================================================
