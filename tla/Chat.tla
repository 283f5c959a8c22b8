-------------------------------- MODULE Chat --------------------------------
(* The chat programs of network/socket/codes: chat, fixed-length and         *)
(* readline.  They differ only in how a message is framed on the stream.     *)
(* Each side is two processes on one connection: the parent sends what is    *)
(* typed (recv_keyboard), the child prints what arrives (recv_socket) and    *)
(* ends the parent with SIGUSR1 when the peer has closed.                    *)
(*                                                                           *)
(* The stream is a sequence of units: <<"c", n>> a character, <<"n", n>> a   *)
(* newline, the n-th unit its user typed; <<"h", d>> a digit of a packet's   *)
(* length.  read() returns any part of what is there, write() takes any part *)
(* of what it is given.                                                      *)
EXTENDS Naturals, Sequences, SequencesExt, FiniteSets

CONSTANTS Sides,          \* the two programs, server and client
          Modes,          \* subset of {"raw", "packet", "line"}
          BUFFER_LENGTH,  \* size of send_buf and recv_buf
          Base,           \* a length is sent as two digits of this base (4 bytes in the code)
          Lengths,        \* [Sides -> SUBSET Nat]: lengths of the lines its user types, with newline
          MaxLines        \* [Sides -> Nat]: bound on the lines each user types

ASSUME ChatAssumption ==
    /\ IsFiniteSet(Sides) /\ Cardinality(Sides) = 2
    /\ Modes \subseteq {"raw", "packet", "line"}
    /\ Base \in Nat \ {0}
    /\ BUFFER_LENGTH \in Nat /\ BUFFER_LENGTH > 1 /\ BUFFER_LENGTH <= Base * Base
    /\ Lengths \in [Sides -> SUBSET (Nat \ {0})]

VARIABLES mode,     \* which of the programs runs
          stdin,    \* [Sides -> Seq(unit)]: typed and not yet fetched by fgets
          kb,       \* [Sides -> ...]: the parent: "fgets", "write" or "gone"
          out,      \* [Sides -> Seq(unit)]: what write or writen has still to send
          sk,       \* [Sides -> ...]: the child: "recv", "quit" (saw the end),
                    \* "failed" (exit on an error) or "gone" (killed, or never made)
          got,      \* [Sides -> Seq(unit)]: what the child has read of a record
          net,      \* [Sides -> Seq(unit)]: the socket's receive buffer
          reset,    \* [Sides -> ...]: "no", "pending" (the next call fails), "seen"
          sigusr1,  \* [Sides -> BOOLEAN]: SIGUSR1 is pending for the parent
          typed,    \* [Sides -> Seq(line)]: history: every line typed
          sent,     \* [Sides -> Seq(record)]: history: every record given to write
          printed   \* [Sides -> Seq([text, over])]: every record given to fputs, and whether
                    \* fputs went on behind it

vars == <<mode, stdin, kb, out, sk, got, net, reset, sigusr1, typed, sent, printed>>

Peer(s) == CHOOSE p \in Sides : p # s

Newline(u) == u[1] = "n"
Closed(s) == kb[s] = "gone" /\ sk[s] \in {"quit", "failed", "gone"}

-----------------------------------------------------------------------------
(* Framing *)

HEAD == 2

htonl(n) == <<<<"h", n \div Base>>, <<"h", n % Base>>>>
ntohl(d) == d[1][2] * Base + d[2][2]

Frame(text) == IF mode = "packet" THEN htonl(Len(text)) \o text ELSE text

\* fgets stops after a newline or when the buffer has room for the terminator only.
fgets(line) ==
    LET p == SelectInSeq(line, Newline)
        n == IF p = 0 THEN Len(line) ELSE p
    IN  IF n < BUFFER_LENGTH THEN n ELSE BUFFER_LENGTH - 1

-----------------------------------------------------------------------------
\* Both sides after fork.  Its result is only compared with 0: when it failed
\* the process goes on as the parent of no child.
Init ==
    /\ mode \in Modes
    /\ stdin = [s \in Sides |-> <<>>] /\ kb = [s \in Sides |-> "fgets"]
    /\ out = [s \in Sides |-> <<>>] /\ sk \in [Sides -> {"recv", "gone"}]
    /\ got = [s \in Sides |-> <<>>] /\ net = [s \in Sides |-> <<>>]
    /\ reset = [s \in Sides |-> "no"] /\ sigusr1 = [s \in Sides |-> FALSE]
    /\ typed = [s \in Sides |-> <<>>] /\ sent = [s \in Sides |-> <<>>]
    /\ printed = [s \in Sides |-> <<>>]

\* The processes of s go into states k and c.  With the last one the kernel
\* closes the connection, and resets it if anything was left unread.
Become(s, k, c) ==
    /\ kb' = [kb EXCEPT ![s] = k]
    /\ sk' = [sk EXCEPT ![s] = c]
    /\ IF k = "gone" /\ c # "recv"
       THEN /\ net' = [net EXCEPT ![s] = <<>>]
            /\ reset' = IF net[s] # <<>> /\ ~Closed(Peer(s)) /\ reset[Peer(s)] = "no"
                        THEN [reset EXCEPT ![Peer(s)] = "pending"] ELSE reset
       ELSE UNCHANGED <<net, reset>>

\* How many units the texts hold, by the number of the last unit.
Counted(texts) == IF texts = <<>> THEN 0 ELSE Last(Last(texts))[2]

\* The user of s types a line of n units.
Type(s, n) ==
    /\ kb[s] # "gone" /\ stdin[s] = <<>> /\ Len(typed[s]) < MaxLines[s]
    /\ LET line == [i \in 1..n |-> <<IF i = n THEN "n" ELSE "c", Counted(typed[s]) + i>>]
       IN  /\ stdin' = [stdin EXCEPT ![s] = line]
           /\ typed' = [typed EXCEPT ![s] = Append(@, line)]
    /\ UNCHANGED <<mode, kb, out, sk, got, net, reset, sigusr1, sent, printed>>

\* recv_keyboard: fgets returns and the record is made up.
recv_keyboard(s) ==
    /\ kb[s] = "fgets" /\ stdin[s] # <<>>
    /\ LET n == fgets(stdin[s])
           text == SubSeq(stdin[s], 1, n)
       IN  /\ stdin' = [stdin EXCEPT ![s] = SubSeq(@, n + 1, Len(@))]
           /\ out' = [out EXCEPT ![s] = Frame(text)]
           /\ sent' = [sent EXCEPT ![s] = Append(@, text)]
    /\ kb' = [kb EXCEPT ![s] = "write"]
    /\ UNCHANGED <<mode, sk, got, net, reset, sigusr1, typed, printed>>

\* recv_keyboard: end of input ends the parent, and the parent only.
KeyboardEnds(s) ==
    /\ kb[s] = "fgets" /\ stdin[s] = <<>>
    /\ Become(s, "gone", sk[s])
    /\ UNCHANGED <<mode, stdin, out, got, sigusr1, typed, sent, printed>>

\* How much of w one call sends: writen's calls may send any part.
WriteSizes(w) == IF mode = "raw" THEN {Len(w)} ELSE 1..Len(w)

\* One write() of writen's loop, or the only one.  What is sent to a peer that
\* has closed is lost, and the kernel learns that nobody reads any more.
writen(s) ==
    /\ kb[s] = "write" /\ reset[s] = "no"
    /\ \E n \in WriteSizes(out[s]) :
          /\ out' = [out EXCEPT ![s] = SubSeq(@, n + 1, Len(@))]
          /\ kb' = [kb EXCEPT ![s] = IF n = Len(out[s]) THEN "fgets" ELSE "write"]
          /\ IF Closed(Peer(s))
             THEN reset' = [reset EXCEPT ![s] = "seen"] /\ UNCHANGED net
             ELSE net' = [net EXCEPT ![Peer(s)] = @ \o SubSeq(out[s], 1, n)] /\ UNCHANGED reset
    /\ UNCHANGED <<mode, stdin, sk, got, sigusr1, typed, sent, printed>>

\* The first write() after a reset fails; the program does not look at the result.
WriteFails(s) ==
    /\ kb[s] = "write" /\ reset[s] = "pending"
    /\ out' = [out EXCEPT ![s] = <<>>] /\ kb' = [kb EXCEPT ![s] = "fgets"]
    /\ reset' = [reset EXCEPT ![s] = "seen"]
    /\ UNCHANGED <<mode, stdin, sk, got, net, sigusr1, typed, sent, printed>>

\* The next one raises SIGPIPE.
BrokenPipe(s) ==
    /\ kb[s] = "write" /\ reset[s] = "seen"
    /\ Become(s, "gone", sk[s])
    /\ out' = [out EXCEPT ![s] = <<>>]
    /\ UNCHANGED <<mode, stdin, got, sigusr1, typed, sent, printed>>

handle_sigusr1(s) ==
    /\ sigusr1[s] /\ kb[s] # "gone"
    /\ Become(s, "gone", sk[s])
    /\ out' = [out EXCEPT ![s] = <<>>]
    /\ UNCHANGED <<mode, stdin, got, sigusr1, typed, sent, printed>>

\* The user of s presses ^C: both processes of the foreground group die.
Interrupt(s) ==
    /\ ~Closed(s)
    /\ Become(s, "gone", IF sk[s] = "recv" THEN "gone" ELSE sk[s])
    /\ out' = [out EXCEPT ![s] = <<>>]
    /\ UNCHANGED <<mode, stdin, got, sigusr1, typed, sent, printed>>

-----------------------------------------------------------------------------
(* recv_socket *)

\* Mutant: one byte of the buffer is kept for a terminator.
Asked_OneLess(g) ==
    IF mode = "packet"
    THEN IF Len(g) < HEAD THEN HEAD - Len(g) ELSE HEAD + ntohl(g) - Len(g)
    ELSE BUFFER_LENGTH - 1 - Len(g)

\* How many units the next call asks for: recv_buf, the rest of a packet's
\* head or body (readn), or what is left of the line buffer (readline).
Asked(g) ==
    IF mode = "packet"
    THEN IF Len(g) < HEAD THEN HEAD - Len(g) ELSE HEAD + ntohl(g) - Len(g)
    ELSE BUFFER_LENGTH - Len(g)

\* Mutant: a packet is shown as soon as some of its body has come.
PacketComplete_Short(g) == Len(g) > HEAD

\* A packet is complete when head and body have come.
PacketComplete(g) == Len(g) >= HEAD /\ Len(g) = HEAD + ntohl(g)

\* fputs reads on behind a buffer without room for the terminator, up to some
\* zero byte that need not come at once.
Overrun(text) == IF Len(text) < BUFFER_LENGTH THEN {FALSE} ELSE BOOLEAN

PrintRecord(s, t) ==
    /\ \E o \in Overrun(t) : printed' = [printed EXCEPT ![s] = Append(@, [text |-> t, over |-> o])]
    /\ got' = [got EXCEPT ![s] = <<>>]

Take(s, n) == net' = [net EXCEPT ![s] = SubSeq(@, n + 1, Len(@))]

\* read() returns n units.
ReadRaw(s, n) ==
    /\ mode = "raw"
    /\ Take(s, n) /\ PrintRecord(s, SubSeq(net[s], 1, n))

\* readn's loop, first for the length and then for the data.
readn(s, n) ==
    /\ mode = "packet"
    /\ Take(s, n)
    /\ LET g == got[s] \o SubSeq(net[s], 1, n)
       IN  IF PacketComplete(g) THEN PrintRecord(s, SubSeq(g, HEAD + 1, Len(g)))
           ELSE got' = [got EXCEPT ![s] = g] /\ UNCHANGED printed

\* readline's loop: n units are peeked at; up to a newline they are taken and
\* make up the line, without one all are taken and the loop goes on.
readline(s, n) ==
    /\ mode = "line"
    /\ LET seen == SubSeq(net[s], 1, n)
           p == SelectInSeq(seen, Newline)
       IN  IF p # 0 THEN Take(s, p) /\ PrintRecord(s, got[s] \o SubSeq(seen, 1, p))
           ELSE /\ Take(s, n)
                /\ got' = [got EXCEPT ![s] = @ \o seen] /\ UNCHANGED printed

recv_socket(s) ==
    /\ sk[s] = "recv" /\ net[s] # <<>>
    /\ \E n \in 1..Len(net[s]) :
          /\ n <= Asked(got[s])
          /\ ReadRaw(s, n) \/ readn(s, n) \/ readline(s, n)
    /\ UNCHANGED <<mode, stdin, kb, out, sk, reset, sigusr1, typed, sent>>

\* Mutant: the child ends without telling its parent.
SignalParent_Forgotten(s) == UNCHANGED sigusr1

\* kill(getppid(), SIGUSR1), unless the parent has gone before.
SignalParent(s) == sigusr1' = [sigusr1 EXCEPT ![s] = kb[s] # "gone"]

\* The call returned 0: the peer has closed, or recv_peek was asked for nothing
\* because the line fills the buffer.  In the middle of a packet it is an error.
SeesEnd(s) ==
    /\ sk[s] = "recv"
    /\ \/ net[s] = <<>> /\ reset[s] # "pending" /\ (reset[s] = "seen" \/ Closed(Peer(s)))
       \/ net[s] # <<>> /\ Asked(got[s]) = 0
    /\ IF mode = "packet" /\ got[s] # <<>>
       THEN Become(s, kb[s], "failed") /\ UNCHANGED sigusr1
       ELSE Become(s, kb[s], "quit") /\ SignalParent(s)
    /\ got' = [got EXCEPT ![s] = <<>>]
    /\ UNCHANGED <<mode, stdin, out, typed, sent, printed>>

\* The call returned -1: exit, without a word to the parent.
SeesError(s) ==
    /\ sk[s] = "recv" /\ net[s] = <<>> /\ reset[s] = "pending"
    /\ sk' = [sk EXCEPT ![s] = "failed"]
    /\ reset' = [reset EXCEPT ![s] = "seen"]
    /\ got' = [got EXCEPT ![s] = <<>>]
    /\ UNCHANGED <<mode, stdin, kb, out, net, sigusr1, typed, sent, printed>>

Parent(s) == recv_keyboard(s) \/ writen(s) \/ WriteFails(s) \/ BrokenPipe(s)
Child(s) == recv_socket(s) \/ SeesEnd(s) \/ SeesError(s)
User(s) == (\E n \in Lengths[s] : Type(s, n)) \/ KeyboardEnds(s) \/ Interrupt(s)

Next == \E s \in Sides : Parent(s) \/ Child(s) \/ User(s) \/ handle_sigusr1(s)

Fairness == \A s \in Sides :
               WF_vars(Parent(s)) /\ WF_vars(Child(s)) /\ WF_vars(handle_sigusr1(s))
Spec == Init /\ [][Next]_vars /\ Fairness

-----------------------------------------------------------------------------
(* Properties *)

Text(s) == [i \in 1..Len(printed[s]) |-> printed[s][i].text]

\* Unit u is in one of the lines.
Typed(lines, u) == \E i \in 1..Len(lines) : \E j \in 1..Len(lines[i]) : lines[i][j] = u

\* The texts are the units 1, 2, 3, ... of the lines.
InOrder(lines, texts) ==
    \A i \in 1..Len(texts) : \A j \in 1..Len(texts[i]) :
        /\ Typed(lines, texts[i][j])
        /\ texts[i][j][2] = j + IF i = 1 THEN 0 ELSE Last(texts[i - 1])[2]

\* What a side prints is what its peer typed, nothing lost, doubled or out of
\* order; record by record as it was given to writen (fixed-length), line by
\* line as it was typed (readline), however the calls cut the stream up and
\* whoever dies.  Bytes from behind recv_buf are printed only after a record
\* that fills it, which a packet never does.
RecordsKept ==
    \A s \in Sides :
        /\ InOrder(typed[Peer(s)], Text(s))
        /\ mode = "packet" => IsPrefix(Text(s), sent[Peer(s)])
        /\ mode = "line" => IsPrefix(Text(s), typed[Peer(s)])
        /\ \A i \in 1..Len(printed[s]) :
              printed[s][i].over => mode # "packet" /\ Len(Text(s)[i]) = BUFFER_LENGTH

\* A child takes the end of the conversation for granted, and ends its parent
\* with SIGUSR1, only when the peer has gone or the connection was reset - or,
\* in readline, when the peer typed a line longer than recv_buf, which
\* recv_peek with no room left reports in the same way.
LeavesForReason ==
    \A s \in Sides :
        sk[s] = "quit" => \/ Closed(Peer(s)) \/ reset[s] = "seen"
                          \/ /\ mode = "line"
                             /\ \E i \in 1..Len(typed[Peer(s)]) :
                                   Len(typed[Peer(s)][i]) > BUFFER_LENGTH

\* When one side has left, the child of the other notices, and both its
\* processes end: only a parent whose child failed on an error, or could not
\* be made by fork, is left behind.
EndsTogether ==
    \A s \in Sides :
        Closed(s) ~> /\ sk[Peer(s)] # "recv"
                     /\ kb[Peer(s)] = "gone" \/ sk[Peer(s)] \in {"failed", "gone"}
=============================================================================
