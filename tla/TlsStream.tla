----------------------------- MODULE TlsStream -----------------------------
(***************************************************************************)
(* FeedTLS of internal/browserdisc: collecting the ClientHello of one        *)
(* connection from its captured segments, and ServerName of                  *)
(* internal/tlshello.  A byte is its position in the stream, so a buffer of  *)
(* consecutive bytes is where it starts and how long it is.  Sequence numbers *)
(* are modulo SeqMod.                                                       *)
(***************************************************************************)
EXTENDS Integers

CONSTANTS
    SeqMod,      \* 2^32
    HelloLen,    \* length of the ClientHello, in units of a record header
    BufLimit     \* 64 KiB

ASSUME StreamAssumption ==
    SeqMod \in Nat /\ BufLimit \in Nat /\ HelloLen \in 1 .. BufLimit /\ HelloLen < SeqMod

\* life is the time left; a state that does not exist has none.
NoState == [life |-> 0, done |-> FALSE, name |-> "", set |-> FALSE, next |-> 0, from |-> 0, len |-> 0]
NewState(life) == [NoState EXCEPT !.life = life]

\* The buffer is not looked at again.
Done(s, name) == [NoState EXCEPT !.life = s.life, !.done = TRUE, !.name = name]

\* What ServerName says of the buffer: the first byte tells a handshake record.
ServerName(from, len) ==
    CASE len < 1                      -> "more"
      [] len >= 1 /\ from # 0         -> "not"
      [] OTHER                        -> IF len >= HelloLen THEN "hello" ELSE "more"

\* The part of a segment that is new.  The comparison does not know that numbers wrap.
OverIgnored(s, seq) == 0
Over(s, seq) == IF seq < s.next THEN s.next - seq ELSE 0

\* FeedTLS for a segment of n bytes from position pos; the state was looked up or made.
Feed(s, seq, pos, n, host) ==
    LET t    == IF s.set THEN s ELSE [s EXCEPT !.set = TRUE, !.next = seq]
        over == Over(t, seq)
        at   == (seq + over) % SeqMod
        gap  == at # t.next
        from == IF gap \/ t.len = 0 THEN pos + over ELSE t.from
        len  == (IF gap THEN 0 ELSE t.len) + n - over
        says == ServerName(from, len)
        u    == [t EXCEPT !.next = (at + n - over) % SeqMod, !.from = from, !.len = len]
    IN  IF s.done THEN s
        ELSE IF over >= n THEN t
        ELSE IF len > BufLimit THEN Done(t, "")
        ELSE IF says = "more" THEN u
        ELSE Done(u, IF says = "hello" THEN host ELSE "")
=============================================================================
