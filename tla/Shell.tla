------------------------------- MODULE Shell -------------------------------
(***************************************************************************)
(* communication/shell/wl_shell.c. wl_shell_read edits a line and, at the  *)
(* end of one, puts it into the command queue and publishes shell_topic;   *)
(* whatever it read it publishes as echo_topic, with a pointer to the      *)
(* caller's buffer. The topic agent of the main loop later runs            *)
(* wl_shell_exec and wl_shell_echo.                                        *)
(*                                                                         *)
(* A read is of one byte. Every line the user can enter is a command of    *)
(* the table; what the scan makes of others is in MsgScan.                 *)
(***************************************************************************)
EXTENDS Integers, Sequences

CONSTANTS
    Char,           \* printable bytes, but for the one that goes with ESC
    ArgLen,         \* MSG_ARG_LEN, the size of the line, of a history line and of the command queue
    HistoryLines,   \* SHELL_HISTORY_LINES
    TopicRoom,      \* topics the topic queue holds
    MaxLines        \* bound: lines accepted, after which nothing more is typed

Nul == "nul"
Cr == "cr"
Control == {"enter", "back", "esc", "[", "up", "down", "right", "left"}
Keys == Char \cup Control

ASSUME ShellAssumption == ArgLen \in Nat \ {0, 1} /\ HistoryLines \in Nat \ {0} /\ TopicRoom \in Nat \ {0}
ASSUME CharAssumption == Char \cap (Control \cup {Nul, Cr}) = {}

VARIABLES
    chLineBuf, hwLinePosition, hwLineLen,
    s_tInputStat,      \* of wl_shell_read
    cHistoryCmdBuf, hwHistoryCount, hwCurrenthistory,
    tByteInQueue,      \* the command queue
    topics,            \* the topic queue
    bEchoMode,
    buffer,            \* the byte in the caller's buffer, which the echo reads
    hwCurposPosition, s_tEchoStat,  \* wl_shell_echo's cursor, and its s_tInputStat
    entered,           \* history: the lines accepted,
    pushed,            \* those the history buffer should have seen pushed
    ran,               \* and those run
    overflowed,        \* history: a queue has overflowed
    astray             \* history: the echo has missed something

line == <<chLineBuf, hwLinePosition, hwLineLen>>
past == <<cHistoryCmdBuf, hwHistoryCount, hwCurrenthistory, pushed>>
echo == <<hwCurposPosition, s_tEchoStat>>
vars == <<line, s_tInputStat, past, tByteInQueue, topics, bEchoMode, buffer, echo, entered, ran, overflowed, astray>>

Blank == [i \in 0..ArgLen - 1 |-> Nul]

strlen(buf) == CHOOSE n \in 0..ArgLen : (n = ArgLen \/ buf[n] = Nul) /\ \A i \in 0..n - 1 : buf[i] # Nul
Smaller(m, n) == IF m < n THEN m ELSE n
Newest(s, n) == SubSeq(s, Len(s) - Smaller(Len(s), n) + 1, Len(s))

Init ==
    /\ chLineBuf = Blank /\ hwLinePosition = 0 /\ hwLineLen = 0
    /\ s_tInputStat = "NORMAL"
    /\ cHistoryCmdBuf = [h \in 0..HistoryLines - 1 |-> Blank] /\ hwHistoryCount = 0 /\ hwCurrenthistory = 0
    /\ tByteInQueue = <<>> /\ topics = <<>>
    /\ bEchoMode = TRUE /\ buffer = Nul
    /\ hwCurposPosition = 0 /\ s_tEchoStat = "NORMAL"
    /\ entered = <<>> /\ pushed = <<>> /\ ran = <<>>
    /\ overflowed = FALSE /\ astray = FALSE

-----------------------------------------------------------------------------
(* What a byte does to the escape state, and whether it is then edited in. *)
Escape(stat, key) ==
    CASE key = "esc" -> "SPEC_KEY"
      [] key = "[" /\ stat = "SPEC_KEY" -> "FUNC_KEY"
      [] OTHER -> "NORMAL"
Sent(stat, key) ==
    /\ key = "[" => stat = "SPEC_KEY"
    /\ key \in {"up", "down", "right", "left"} => stat = "FUNC_KEY"
Plain(stat, key) == key \notin {"esc", "["} /\ stat # "FUNC_KEY"

EchoTopic == IF bEchoMode THEN <<"echo_topic">> ELSE <<>>

(* The end of wl_shell_read: its topics are published, the oldest giving   *)
(* way. The echo misses what it is not told of, and the byte before if it  *)
(* was not echoed yet; after that it is followed no further, since nothing *)
(* else depends on where its cursor is.                                    *)
Publishes(key, news, unseen) ==
    LET all == topics \o news \o EchoTopic
    IN  /\ topics' = Newest(all, TopicRoom)
        /\ overflowed' = (overflowed \/ Len(all) > TopicRoom
                           \/ (entered' # entered /\ Len(tByteInQueue) + hwLinePosition + 1 > ArgLen))
        /\ astray' = (astray \/ unseen \/ ~bEchoMode \/ \E i \in DOMAIN topics : topics[i] = "echo_topic")
        /\ IF astray' THEN buffer' = Nul /\ hwCurposPosition' = 0 /\ s_tEchoStat' = "NORMAL"
                      ELSE buffer' = key /\ UNCHANGED echo

Edits(key, unseen) == UNCHANGED <<tByteInQueue, entered>> /\ Publishes(key, <<>>, unseen)

Recalls(key, h) ==
    /\ hwCurrenthistory' = h
    /\ chLineBuf' = cHistoryCmdBuf[h]
    /\ hwLinePosition' = strlen(cHistoryCmdBuf[h]) /\ hwLineLen' = hwLinePosition'
    /\ UNCHANGED <<cHistoryCmdBuf, hwHistoryCount, pushed>>
    /\ Edits(key, TRUE)

Up == hwCurrenthistory > 0 /\ Recalls("up", hwCurrenthistory - 1)
Down == hwHistoryCount # 0 /\ Recalls("down", Smaller(hwCurrenthistory + 1, hwHistoryCount - 1))

(* Up or down with nothing there, another byte after ESC [, and the bytes  *)
(* of an escape sequence themselves. *)
NoEffect(key) == UNCHANGED <<line, past>> /\ Edits(key, FALSE)

MovesTo(key, position) ==
    /\ hwLinePosition' = position
    /\ UNCHANGED <<chLineBuf, hwLineLen, past>>
    /\ Edits(key, FALSE)

FunctionKey(key) ==
    \/ key = "up" /\ Up
    \/ key = "up" /\ hwCurrenthistory = 0 /\ NoEffect(key)
    \/ key = "down" /\ Down
    \/ key = "down" /\ hwHistoryCount = 0 /\ NoEffect(key)
    \/ key = "right" /\ MovesTo(key, IF hwLinePosition < hwLineLen THEN hwLinePosition + 1 ELSE hwLinePosition)
    \/ key = "left" /\ MovesTo(key, IF hwLinePosition # 0 THEN hwLinePosition - 1 ELSE 0)
    \/ key \notin {"up", "down", "right", "left"} /\ NoEffect(key)

-----------------------------------------------------------------------------
Text(buf) == [i \in 1..strlen(buf) |-> buf[i - 1]]
Saved == [i \in 0..ArgLen - 1 |-> IF i < hwLinePosition THEN chLineBuf[i] ELSE Nul]
Repeats == hwHistoryCount # 0 /\ cHistoryCmdBuf[hwHistoryCount - 1] = chLineBuf

push_history_NoShift ==  \* mutant: a full history replaces its last line
    LET slot == Smaller(hwHistoryCount, HistoryLines - 1)
    IN  IF Repeats
        THEN hwCurrenthistory' = hwHistoryCount /\ UNCHANGED <<cHistoryCmdBuf, hwHistoryCount>>
        ELSE /\ cHistoryCmdBuf' = [cHistoryCmdBuf EXCEPT ![slot] = Saved]
             /\ hwHistoryCount' = slot + 1 /\ hwCurrenthistory' = slot + 1

(* shell_push_history: unless it is, byte for byte, the line pushed last.  *)
push_history ==
    LET full == hwHistoryCount >= HistoryLines
        slot == IF full THEN HistoryLines - 1 ELSE hwHistoryCount
    IN  IF Repeats
        THEN hwCurrenthistory' = hwHistoryCount /\ UNCHANGED <<cHistoryCmdBuf, hwHistoryCount>>
        ELSE /\ cHistoryCmdBuf' = [h \in 0..HistoryLines - 1 |->
                    IF h = slot THEN Saved ELSE cHistoryCmdBuf[IF full THEN h + 1 ELSE h]]
             /\ hwHistoryCount' = slot + 1 /\ hwCurrenthistory' = slot + 1

(* The line goes into the command queue; the oldest bytes give way.        *)
Queued(bytes) == Newest(tByteInQueue \o bytes, ArgLen)

Accepts ==
    LET text == Text(chLineBuf)
    IN  /\ hwLinePosition = strlen(chLineBuf) /\ hwLinePosition # 0
        /\ push_history
        /\ tByteInQueue' = Queued(Append(text, Cr))
        /\ entered' = Append(entered, text)
        /\ Publishes("enter", <<"shell_topic">>, FALSE)
        /\ pushed' = IF pushed # <<>> /\ pushed[Len(pushed)] = text /\ chLineBuf = Saved
                     THEN pushed ELSE Append(pushed, text)

Enter ==
    /\ chLineBuf' = Blank /\ hwLinePosition' = 0
    /\ UNCHANGED hwLineLen
    /\ \/ Accepts
       \/ /\ hwLinePosition # strlen(chLineBuf) \/ hwLinePosition = 0
          /\ UNCHANGED past /\ Edits("enter", FALSE)

Backspace_Unchecked ==  \* mutant: also at the start of the line
    LET position == hwLinePosition - 1
    IN  /\ chLineBuf' = [chLineBuf EXCEPT ![position] = Nul]
        /\ hwLinePosition' = position /\ hwLineLen' = position
        /\ UNCHANGED past /\ Edits("back", FALSE)

Backspace ==
    LET position == IF hwLinePosition # 0 THEN hwLinePosition - 1 ELSE 0
    IN  /\ chLineBuf' = IF hwLinePosition # 0 THEN [chLineBuf EXCEPT ![position] = Nul] ELSE chLineBuf
        /\ hwLinePosition' = position
        /\ hwLineLen' = IF hwLinePosition # 0 THEN position ELSE hwLineLen
        /\ UNCHANGED past /\ Edits("back", FALSE)

Type_OneMore(c) ==  \* mutant: the last place of the buffer is written
    /\ IF hwLinePosition < ArgLen
       THEN /\ chLineBuf' = [chLineBuf EXCEPT ![hwLinePosition] = c]
            /\ hwLinePosition' = hwLinePosition + 1 /\ hwLineLen' = hwLinePosition'
            /\ Edits(c, FALSE)
       ELSE hwLinePosition' = 0 /\ hwLineLen' = 0 /\ UNCHANGED chLineBuf /\ Edits(c, TRUE)
    /\ UNCHANGED past

(* A byte too many sends the cursor back and leaves the text. *)
Type(c) ==
    /\ IF hwLinePosition < ArgLen - 1
       THEN /\ chLineBuf' = [chLineBuf EXCEPT ![hwLinePosition] = c]
            /\ hwLinePosition' = hwLinePosition + 1 /\ hwLineLen' = hwLinePosition'
            /\ Edits(c, FALSE)
       ELSE hwLinePosition' = 0 /\ hwLineLen' = 0 /\ UNCHANGED chLineBuf /\ Edits(c, TRUE)
    /\ UNCHANGED past

wl_shell_read(key) ==
    /\ Len(entered) < MaxLines /\ Sent(s_tInputStat, key)
    /\ s_tInputStat' = Escape(s_tInputStat, key)
    /\ \/ key \in {"esc", "["} /\ NoEffect(key)
       \/ key # "esc" /\ s_tInputStat = "FUNC_KEY" /\ FunctionKey(key)
       \/ Plain(s_tInputStat, key) /\ key = "enter" /\ Enter
       \/ Plain(s_tInputStat, key) /\ key = "back" /\ Backspace
       \/ Plain(s_tInputStat, key) /\ key \in Char /\ Type(key)
    /\ UNCHANGED <<bEchoMode, ran>>

wl_shell_set_echo(on) ==
    /\ bEchoMode' = on
    /\ UNCHANGED <<line, s_tInputStat, past, tByteInQueue, topics, buffer, echo, entered, ran, overflowed, astray>>

-----------------------------------------------------------------------------
(* The topic agent. *)
wl_shell_exec_All ==  \* mutant: the queue is emptied, as reset_queue would
    /\ topics # <<>> /\ Head(topics) = "shell_topic" /\ topics' = Tail(topics)
    /\ tByteInQueue' = <<>>
    /\ ran' = IF tByteInQueue = <<>> THEN ran
              ELSE Append(ran, SubSeq(tByteInQueue, 1, (CHOOSE e \in DOMAIN tByteInQueue :
                        tByteInQueue[e] = Cr /\ \A i \in 1..e - 1 : tByteInQueue[i] # Cr) - 1))
    /\ UNCHANGED <<line, s_tInputStat, past, bEchoMode, buffer, echo, entered, overflowed, astray>>

(* The first line in the queue is run; what is left of one whose front was *)
(* overwritten runs like a command too, and a bare line end is dropped.    *)
wl_shell_exec ==
    LET starts == {b \in DOMAIN tByteInQueue : tByteInQueue[b] # Cr}
        first == CHOOSE b \in starts : \A i \in starts : b <= i
        ends == {e \in DOMAIN tByteInQueue : e > first /\ tByteInQueue[e] = Cr}
        last == CHOOSE e \in ends : \A i \in ends : e <= i
    IN  /\ topics # <<>> /\ Head(topics) = "shell_topic" /\ topics' = Tail(topics)
        /\ IF starts = {}
           THEN tByteInQueue' = <<>> /\ ran' = ran
           ELSE /\ tByteInQueue' = SubSeq(tByteInQueue, last + 1, Len(tByteInQueue))
                /\ ran' = Append(ran, SubSeq(tByteInQueue, first, last - 1))
        /\ UNCHANGED <<line, s_tInputStat, past, bEchoMode, buffer, echo, entered, overflowed, astray>>

wl_shell_echo_NoBound ==  \* mutant: the cursor is not held at the end of the line
    /\ topics # <<>> /\ Head(topics) = "echo_topic" /\ topics' = Tail(topics)
    /\ s_tEchoStat' = IF astray THEN s_tEchoStat ELSE Escape(s_tEchoStat, buffer)
    /\ hwCurposPosition' =
         CASE astray \/ buffer = "esc" \/ (buffer = "[" /\ s_tEchoStat = "SPEC_KEY") -> hwCurposPosition
           [] buffer = "right" /\ s_tEchoStat = "FUNC_KEY" -> hwCurposPosition + 1
           [] buffer = "left" /\ s_tEchoStat = "FUNC_KEY" -> IF hwCurposPosition # 0 THEN hwCurposPosition - 1 ELSE 0
           [] s_tEchoStat = "FUNC_KEY" -> hwCurposPosition
           [] buffer = "enter" -> 0
           [] buffer = "back" -> IF hwCurposPosition # 0 THEN hwCurposPosition - 1 ELSE 0
           [] OTHER -> hwCurposPosition + 1
    /\ UNCHANGED <<line, s_tInputStat, past, tByteInQueue, bEchoMode, buffer, entered, ran, overflowed, astray>>

(* Where the echo's cursor goes. The byte is whatever the caller's buffer   *)
(* holds by now.                                                           *)
EchoedAt ==
    LET back == IF hwCurposPosition # 0 THEN hwCurposPosition - 1 ELSE 0
        function == s_tEchoStat = "FUNC_KEY"
    IN  CASE buffer = "esc" \/ (buffer = "[" /\ s_tEchoStat = "SPEC_KEY") -> hwCurposPosition
          [] buffer = "right" /\ function ->
               IF hwCurposPosition < hwLineLen THEN hwCurposPosition + 1 ELSE hwCurposPosition
          [] buffer = "left" /\ function -> back
          [] buffer \notin {"right", "left", "esc"} /\ function -> hwCurposPosition
          [] buffer = "enter" /\ ~function -> 0
          [] buffer = "back" /\ ~function -> back
          [] OTHER -> hwCurposPosition + 1

wl_shell_echo ==
    /\ topics # <<>> /\ Head(topics) = "echo_topic" /\ topics' = Tail(topics)
    /\ s_tEchoStat' = IF astray THEN s_tEchoStat ELSE Escape(s_tEchoStat, buffer)
    /\ hwCurposPosition' = IF astray THEN hwCurposPosition ELSE EchoedAt
    /\ UNCHANGED <<line, s_tInputStat, past, tByteInQueue, bEchoMode, buffer, entered, ran, overflowed, astray>>

TopicAgent == wl_shell_exec \/ wl_shell_echo

Next ==
    \/ \E key \in Keys : wl_shell_read(key)
    \/ \E on \in BOOLEAN : wl_shell_set_echo(on)
    \/ TopicAgent

(* The main loop comes back to the topic agent. *)
Spec == Init /\ [][Next]_vars /\ WF_vars(TopicAgent)

TypeOK ==
    /\ chLineBuf \in [0..ArgLen - 1 -> Char \cup {Nul}]
    /\ cHistoryCmdBuf \in [0..HistoryLines - 1 -> [0..ArgLen - 1 -> Char \cup {Nul}]]
    /\ hwLineLen \in 0..ArgLen - 1 /\ hwLinePosition \in 0..ArgLen - 1
    /\ hwHistoryCount \in 0..HistoryLines /\ hwCurrenthistory \in 0..hwHistoryCount
    /\ {s_tInputStat, s_tEchoStat} \subseteq {"NORMAL", "SPEC_KEY", "FUNC_KEY"}
    /\ tByteInQueue \in Seq(Char \cup {Cr}) /\ Len(tByteInQueue) <= ArgLen
    /\ topics \in Seq({"shell_topic", "echo_topic"}) /\ Len(topics) <= TopicRoom
    /\ hwCurposPosition \in Nat /\ buffer \in Keys \cup {Nul} /\ {bEchoMode, overflowed, astray} \subseteq BOOLEAN

(* Whatever is typed, deleted, recalled and moved over, the line and every *)
(* line of the history end inside their buffers.                           *)
LinesEnd ==
    /\ chLineBuf[ArgLen - 1] = Nul
    /\ \A h \in 0..HistoryLines - 1 : cHistoryCmdBuf[h][ArgLen - 1] = Nul

(* The history holds the newest lines, oldest first, a line entered again  *)
(* at once only once; or twice when the editing left bytes behind its end. *)
HistoryKept ==
    [i \in 1..hwHistoryCount |-> Text(cHistoryCmdBuf[i - 1])] = Newest(pushed, HistoryLines)

(* Lines are run in the order they were entered, each once and unaltered,  *)
(* unless the command queue or the topic queue has overflowed.             *)
RunsInOrder == ~overflowed => ran = SubSeq(entered, 1, Len(ran))

(* And every line is run in the end.                                       *)
EveryLineRuns == []<>(~overflowed => ran = entered)

(* Once it has caught up, the cursor of the echo is where the cursor of    *)
(* the line is, unless the echo has missed a byte, a line was recalled     *)
(* from the history or a line has become too long.                         *)
EchoInStep ==
    ~astray /\ "echo_topic" \notin {topics[i] : i \in DOMAIN topics} =>
        hwCurposPosition = hwLinePosition /\ s_tEchoStat = s_tInputStat
=============================================================================
