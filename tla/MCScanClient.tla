---------------------------- MODULE MCScanClient ----------------------------
(* Two scans; a URL the client and the server take, one of whose two suffixes
   each of them drops one, one only the client takes and one only the server
   takes. *)
EXTENDS ScanClient

CONSTANTS f1

MCDefaultUrl == [host |-> "github.com", owner |-> "a", repo |-> "r", gits |-> 0]

MCUrls ==
    {MCDefaultUrl,
     [MCDefaultUrl EXCEPT !.repo = "s", !.gits = 2],
     [MCDefaultUrl EXCEPT !.owner = "malformed"],
     [MCDefaultUrl EXCEPT !.host = "www.github.com", !.gits = 1]}

=============================================================================
