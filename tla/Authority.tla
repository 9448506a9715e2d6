----------------------------- MODULE Authority ------------------------------
\* The development certificate authority of the server (auru-pm-server
\* tls.rs, started from main.rs): two files shared by every server of a user,
\* minted by the first start that finds neither, and a fresh leaf certificate
\* per start.  An authority is a number; its certificate and its key match when
\* the numbers do.
EXTENDS Naturals

CONSTANTS Server,     \* servers one user runs
          MaxMint     \* bound on authorities minted

ASSUME MintAssumption == MaxMint \in Nat

VARIABLES certFile,   \* development-ca.pem: Absent, Torn or a number
          keyFile,    \* development-ca.key.pem, likewise
          server,     \* server[s]: [at, cert, key]
          minted,     \* authorities minted so far
          anchor,     \* the certificate the installed client was built with
          removed,    \* has a person deleted what was left of an authority in use?
          overlapped  \* has a start minted while, or after, another began to?

authorityVars == <<certFile, keyFile, server, minted, anchor, removed, overlapped>>

Absent == 0
Torn == MaxMint + 1
Down == [at |-> "down", cert |-> Absent, key |-> Absent]
Minting == {s \in Server : server[s].at \in {"mint", "cert", "certified", "key"}}

AuthorityInit ==
    /\ certFile = Absent
    /\ keyFile = Absent
    /\ server = [s \in Server |-> Down]
    /\ minted = 0
    /\ anchor = Absent
    /\ removed = FALSE
    /\ overlapped = FALSE

Moves(s, r) == server' = [server EXCEPT ![s] = r]

\* load_or_create_authority reads the certificate, then the key.
ReadCertificate(s) ==
    /\ server[s].at = "down"
    /\ Moves(s, [at |-> "read", cert |-> certFile, key |-> Absent])
    /\ UNCHANGED <<certFile, keyFile, minted, anchor, removed, overlapped>>

\* Half a pair repaired by minting a new one.
FoundRemint(cert, key) ==
    CASE cert # Absent /\ key # Absent -> "found"
      [] cert = Absent \/ key = Absent -> "mint"

\* Both files make an authority, neither asks for one, half a pair is an error.
Found(cert, key) ==
    CASE cert # Absent /\ key # Absent -> "found"
      [] cert = Absent /\ key = Absent -> "mint"
      [] (cert = Absent) # (key = Absent) -> "down"

ReadKey(s) ==
    /\ server[s].at = "read"
    /\ LET at == Found(server[s].cert, keyFile)
       IN  /\ at = "mint" => minted < MaxMint
           /\ Moves(s, CASE at = "found" -> [at |-> "found", cert |-> server[s].cert, key |-> keyFile]
                         [] at = "mint" -> [at |-> "mint", cert |-> minted + 1, key |-> minted + 1]
                         [] at = "down" -> Down)
           /\ minted' = IF at = "mint" THEN minted + 1 ELSE minted
           /\ overlapped' = (overlapped \/ (at = "mint" /\ (Minting # {} \/ certFile # server[s].cert)))
    /\ UNCHANGED <<certFile, keyFile, anchor, removed>>

\* create_authority writes the certificate, then the key, each in place.
WriteAuthority(s) ==
    /\ \/ server[s].at = "mint" /\ Moves(s, [server[s] EXCEPT !.at = "cert"])
          /\ certFile' = Torn /\ UNCHANGED keyFile
       \/ server[s].at = "cert" /\ Moves(s, [server[s] EXCEPT !.at = "certified"])
          /\ certFile' = server[s].cert /\ UNCHANGED keyFile
       \/ server[s].at = "certified" /\ Moves(s, [server[s] EXCEPT !.at = "key"])
          /\ keyFile' = Torn /\ UNCHANGED certFile
       \/ server[s].at = "key" /\ Moves(s, [server[s] EXCEPT !.at = "found"])
          /\ keyFile' = server[s].key /\ UNCHANGED certFile
    /\ UNCHANGED <<minted, anchor, removed, overlapped>>

\* A leaf is issued with the key and sent with the certificate.  A file that
\* does not parse stops the start; a certificate file cut to nothing may not,
\* for it only leaves the chain without the authority.
Started(cert, key) ==
    CASE key = Torn -> {"down"}
      [] key # Torn /\ cert = Torn -> {"down", "up"}
      [] Torn \notin {cert, key} -> {"up"}

Serve(s) ==
    /\ server[s].at = "found"
    /\ \E at \in Started(server[s].cert, server[s].key) :
          Moves(s, IF at = "up" THEN [server[s] EXCEPT !.at = "up"] ELSE Down)
    /\ UNCHANGED <<certFile, keyFile, minted, anchor, removed, overlapped>>

\* A server stops, or dies in the middle of a start.
Stop(s) ==
    /\ server[s].at # "down"
    /\ Moves(s, Down)
    /\ UNCHANGED <<certFile, keyFile, minted, anchor, removed, overlapped>>

\* A client is built once, with the certificate a running server named.
BuildClient ==
    /\ anchor = Absent
    /\ \E s \in Server : server[s].at = "up"
    /\ certFile \in 1 .. MaxMint
    /\ anchor' = certFile
    /\ UNCHANGED <<certFile, keyFile, server, minted, removed, overlapped>>

\* One of the files is lost; or a person deletes what is left, as the error
\* message of a refused start tells them to.
LoseFile ==
    /\ \/ certFile' = Absent /\ certFile # Absent /\ keyFile # Absent /\ UNCHANGED keyFile
       \/ keyFile' = Absent /\ certFile # Absent /\ keyFile # Absent /\ UNCHANGED certFile
    /\ UNCHANGED <<server, minted, anchor, removed, overlapped>>

DeleteRest ==
    /\ (certFile = Absent) # (keyFile = Absent)
    /\ certFile' = Absent /\ keyFile' = Absent
    /\ removed' = (removed \/ anchor # Absent \/ \E s \in Server : server[s] # Down)
    /\ UNCHANGED <<server, minted, anchor, overlapped>>

AuthorityNext ==
    \/ \E s \in Server : ReadCertificate(s) \/ ReadKey(s) \/ WriteAuthority(s)
                           \/ Serve(s) \/ Stop(s)
    \/ BuildClient \/ LoseFile \/ DeleteRest

AuthoritySpec == AuthorityInit /\ [][AuthorityNext]_authorityVars

-----------------------------------------------------------------------------
\* The installed client can talk to every server that is up: through crashes
\* between the two files, torn files and a lost file, no start replaces the
\* authority the client was built with or serves a leaf another key signed,
\* unless a person deleted the rest of a broken pair or two first
\* starts overlapped.
ClientTrustsServers ==
    anchor # Absent /\ ~removed /\ ~overlapped =>
        \A s \in Server : server[s].at = "up" => server[s].key = anchor

\* The shapes of files and servers.
AuthorityTypeOK ==
    /\ minted \in 0 .. MaxMint
    /\ removed \in BOOLEAN /\ overlapped \in BOOLEAN
    /\ {certFile, keyFile, anchor} \subseteq 0 .. Torn
    /\ anchor # Torn
    /\ server \in [Server -> [at : {"down", "read", "mint", "cert", "certified", "key", "found", "up"},
                             cert : 0 .. Torn, key : 0 .. Torn]]

\* How far one server is, when the newest authority is the only one there is.
Consistent(r) ==
    /\ r.cert \in {Absent, Torn, minted} /\ r.key \in {Absent, Torn, minted}
    /\ r.at = "down" => r = Down
    /\ r.at = "read" => r.key = Absent
    /\ r.at \in {"mint", "cert", "certified", "key"} =>
          r.cert = minted /\ r.key = minted /\ minted # Absent
    /\ r.at \in {"found", "up"} => r.key # Absent
    /\ r.at = "up" => r.key # Torn

\* The inductive strengthening of ClientTrustsServers: at most one authority is
\* in files, servers and client, and when both files are gone nobody has it.
OneAuthority ==
    /\ {certFile, keyFile, anchor} \subseteq {Absent, Torn, minted}
    /\ \A s \in Server : Consistent(server[s])
    /\ \A s, t \in Minting : s = t
    /\ \A s \in Server : server[s].at = "mint" => certFile = Absent /\ keyFile = Absent
    /\ certFile = Absent /\ keyFile = Absent =>
          /\ anchor = Absent
          /\ \A s \in Server : /\ server[s].at \in {"down", "read", "mint"}
                               /\ server[s].at = "read" => server[s].cert = Absent

AuthorityInv == AuthorityTypeOK /\ (~removed /\ ~overlapped => OneAuthority)
=============================================================================
