---------------------------- MODULE Conversation ----------------------------
(***************************************************************************)
(* Spoken dialogue: the ear (crates/streaming/src/voice/mod.rs), the       *)
(* bridge task with the answer rounds it spawns                            *)
(* (src/runtime/voice_bridge.rs) and the loudspeaker                       *)
(* (crates/streaming/src/tts.rs).                                          *)
(*                                                                         *)
(* An utterance is a number, its transcript a kind.  The round that        *)
(* answers utterance u is round u; a reply is its sentences 1 .. N.        *)
(* The mute is on or off, without its length.  The listening windows only  *)
(* decide whether the wake word is needed; the ear here may hear anything  *)
(* at any time unless it is muted.  Steps end at awaits.                   *)
(***************************************************************************)
EXTENDS Integers, Sequences, FiniteSets

CONSTANTS
    N,          \* sentences of a reply
    Remote,     \* an agent or the cloud answers first
    Max         \* bound: utterances

ASSUME ConversationAssumption ==
    /\ N \in Nat \ {0}
    /\ Remote \in BOOLEAN
    /\ Max \in Nat \ {0}

Us    == 1 .. Max
Parts == 1 .. N
Kinds == {"blank", "stop", "command", "question"}
Whole == [s \in Parts |-> s]
Audio == (Us \X (0 .. N)) \cup {<<0, 0>>}   \* <<u, 0>> is a text spoken in one piece

VARIABLES
    mute,        \* playback_mute_until_ms
    kind,        \* kind[u], once heard
    asr,         \* utterances being transcribed
    inbox,       \* the channel of transcripts
    bridge,      \* step and utterance of the bridge task
    activeRound, \* active_round, 0 for none
    round,       \* round[u]: the answer task with its generator and speaker
    wav,         \* what the synthesizer's output file holds
    turns,       \* turns[u]: the conversation record
    said,        \* history: sentences whose player ended by itself
    excused      \* history: playbacks overlapped, or one outlived the mute

ear == <<kind, asr>>
talkVars == <<ear, mute, inbox, bridge, activeRound, round, wav, turns, said, excused>>

Speech == {s \in Seq(Parts) : Len(s) <= N}

\* step; cancelled; sentences generated and how that ended; the speaker's step,
\* sentences taken, the one ahead and the one at hand; first; syntheses;
\* spoken_prefix.
NoRound == [pc |-> "none", cancel |-> FALSE, gen |-> 0, genEnd |-> "no", sp |-> "off", taken |-> 0,
            ahead |-> 0, cur |-> 0, first |-> TRUE, syn |-> [s \in Parts |-> "no"],
            prefix |-> <<>>]
NoTurn  == [done |-> FALSE, reply |-> <<>>, cut |-> FALSE]
BridgeIdle == [pc |-> "idle", u |-> 0]

TalkTypeOK ==
    /\ {mute, excused} \subseteq BOOLEAN
    /\ kind \in [Us -> Kinds \cup {"none"}]
    /\ asr \subseteq Us
    /\ inbox \in Seq(Us)
    /\ bridge \in [pc : {"idle", "gate", "route", "command"}, u : 0 .. Max]
    /\ activeRound \in 0 .. Max
    /\ \A u \in Us :
        /\ round[u].pc \in {"none", "remote", "local", "speak", "finish", "end"}
        /\ round[u].sp \in {"off", "recv", "wait", "play", "done"}
        /\ round[u].genEnd \in {"no", "ok", "bad"}
        /\ round[u].syn \in [Parts -> {"no", "run", "ok", "bad"}]
        /\ {round[u].gen, round[u].taken, round[u].ahead, round[u].cur} \subseteq 0 .. N
        /\ Len(round[u].prefix) <= N
    /\ wav \in Audio
    /\ \A u \in Us : Len(turns[u].reply) <= N
    /\ said \subseteq Us \X Parts

TalkInit ==
    /\ mute = FALSE
    /\ kind = [u \in Us |-> "none"]
    /\ asr = {}
    /\ inbox = <<>>
    /\ bridge = BridgeIdle
    /\ activeRound = 0
    /\ round = [u \in Us |-> NoRound]
    /\ wav = <<0, 0>>
    /\ turns = [u \in Us |-> NoTurn]
    /\ said = {}
    /\ excused = FALSE

-----------------------------------------------------------------------------
(* The ear                                                                 *)

\* Who is on the loudspeaker, and who will lift the mute it has set.
Reciting  == {u \in Us : round[u].pc = "speak" \/ bridge = [pc |-> "command", u |-> u]}
Playing == Reciting \cup {u \in Us : round[u].sp = "play"}
Muting  == Reciting \cup {u \in Us : ~round[u].first /\ round[u].sp # "done"}

\* A captured utterance, after the wake word or inside the listening window,
\* goes to a transcription of its own.  A muted ear drops its input.
HearUtterance(k) ==
    /\ ~mute
    /\ \E u \in Us :
        /\ kind[u] = "none"
        /\ \A v \in 1 .. u - 1 : kind[v] # "none"
        /\ kind' = [kind EXCEPT ![u] = k]
        /\ asr' = asr \cup {u}
    /\ UNCHANGED <<mute, inbox, bridge, activeRound, round, wav, turns, said, excused>>

\* Transcriptions run side by side.
Transcribed(u) ==
    /\ u \in asr
    /\ asr' = asr \ {u}
    /\ inbox' = Append(inbox, u)
    /\ UNCHANGED <<kind, mute, bridge, activeRound, round, wav, turns, said, excused>>

\* The mute's two minutes are over and playback still goes on.
MuteExpires ==
    /\ mute
    /\ Playing # {}
    /\ mute' = FALSE
    /\ excused' = TRUE
    /\ UNCHANGED <<ear, inbox, bridge, activeRound, round, wav, turns, said>>

-----------------------------------------------------------------------------
(* The bridge task                                                         *)

Record(u, reply, cut) == turns' = [turns EXCEPT ![u] = [done |-> TRUE, reply |-> reply, cut |-> cut]]

\* The round in the slot, if there still is one, is told to stop.
TakeSlot ==
    /\ activeRound' = 0
    /\ round' = IF activeRound = 0 THEN round ELSE [round EXCEPT ![activeRound].cancel = TRUE]

\* A transcript while no round runs.
Take ==
    /\ bridge.pc = "idle"
    /\ inbox # <<>>
    /\ activeRound = 0
    /\ bridge' = [pc |-> "route", u |-> Head(inbox)]
    /\ inbox' = Tail(inbox)
    /\ UNCHANGED <<ear, mute, activeRound, round, wav, turns, said, excused>>

\* A transcript while a round runs: nothing, a stop word, or up to the classifier.
Interrupt ==
    /\ bridge.pc = "idle"
    /\ inbox # <<>>
    /\ activeRound # 0
    /\ inbox' = Tail(inbox)
    /\ LET u == Head(inbox) IN
        \/ /\ kind[u] = "blank"
           /\ UNCHANGED <<bridge, activeRound, round, turns>>
        \/ /\ kind[u] = "stop"
           /\ TakeSlot
           /\ Record(u, <<>>, FALSE)
           /\ UNCHANGED bridge
        \/ /\ kind[u] \notin {"blank", "stop"}
           /\ bridge' = [pc |-> "gate", u |-> u]
           /\ UNCHANGED <<activeRound, round, turns>>
    /\ UNCHANGED <<ear, mute, wav, said, excused>>

\* The verdict, or none in time: the round goes on.
Backchannel ==
    /\ bridge.pc = "gate"
    /\ Record(bridge.u, <<>>, FALSE)
    /\ bridge' = BridgeIdle
    /\ UNCHANGED <<ear, mute, inbox, activeRound, round, wav, said, excused>>

\* A new question; the old round may have ended meanwhile.
Supersede ==
    /\ bridge.pc = "gate"
    /\ TakeSlot
    /\ bridge' = [bridge EXCEPT !.pc = "route"]
    /\ UNCHANGED <<ear, mute, inbox, wav, turns, said, excused>>

\* "I am leaving", "I am home": AwayMode's set_active, then a spoken reply.
Command ==
    /\ bridge.pc = "route"
    /\ kind[bridge.u] = "command"
    /\ mute' = TRUE
    /\ wav' = <<bridge.u, 0>>
    /\ bridge' = [bridge EXCEPT !.pc = "command"]
    /\ excused' = (excused \/ Muting # {})
    /\ UNCHANGED <<ear, inbox, activeRound, round, turns, said>>

CommandSpoken ==
    /\ bridge.pc = "command"
    /\ mute' = FALSE
    /\ Record(bridge.u, Whole, FALSE)
    /\ bridge' = BridgeIdle
    /\ UNCHANGED <<ear, inbox, activeRound, round, wav, said, excused>>

\* Nothing said, triage says ignore, or there is no chat engine.
NoReply ==
    /\ bridge.pc = "route"
    /\ kind[bridge.u] # "command"
    /\ Record(bridge.u, <<>>, FALSE)
    /\ bridge' = BridgeIdle
    /\ UNCHANGED <<ear, mute, inbox, activeRound, round, wav, said, excused>>

\* The round takes the slot.
StartRound ==
    /\ bridge.pc = "route"
    /\ kind[bridge.u] \notin {"command", "blank"}
    /\ activeRound' = bridge.u
    /\ round' = [round EXCEPT ![bridge.u].pc = IF Remote THEN "remote" ELSE "local",
                              ![bridge.u].sp = IF Remote THEN "off" ELSE "recv"]
    /\ bridge' = BridgeIdle
    /\ UNCHANGED <<ear, mute, inbox, wav, turns, said, excused>>

-----------------------------------------------------------------------------
(* The local leg: generator, synthesizer and speaker of round u            *)

Local(u) == round[u].pc = "local"
Rest     == <<ear, inbox, bridge, activeRound, turns>>

\* One more sentence; a cancelled generation stops at the next token.
Generate(u) ==
    /\ Local(u) /\ round[u].genEnd = "no"
    /\ \/ /\ ~round[u].cancel
          /\ round[u].gen < N
          /\ round' = [round EXCEPT ![u].gen = @ + 1]
       \/ /\ round[u].cancel \/ round[u].gen = N
          /\ round' = [round EXCEPT ![u].genEnd = "ok"]
       \/ round' = [round EXCEPT ![u].genEnd = "bad"]
    /\ UNCHANGED <<Rest, mute, wav, said, excused>>

\* synthesize: every call writes the same file.
Synthesize(u, s) ==
    /\ round[u].syn[s] = "run"
    /\ \/ /\ round' = [round EXCEPT ![u].syn[s] = IF Local(u) THEN "ok" ELSE "no"]
          /\ wav' = <<u, s>>
       \/ /\ round' = [round EXCEPT ![u].syn[s] = IF Local(u) THEN "bad" ELSE "no"]
          /\ UNCHANGED wav
    /\ UNCHANGED <<Rest, mute, said, excused>>

\* Mutant: the speaker task leaves without lifting the mute.
SpeakerLeaves(u) ==
    /\ round' = [round EXCEPT ![u].sp = "done", ![u].ahead = 0]
    /\ UNCHANGED mute

\* The end of the speaker task lifts the mute it set.
SpeakerEnds(u) ==
    /\ round' = [round EXCEPT ![u].sp = "done", ![u].ahead = 0]
    /\ mute' = (mute /\ round[u].first)

\* A sentence comes in: its synthesis starts, then the one ahead is spoken.
SpeakerTakes(u) ==
    /\ Local(u) /\ round[u].sp = "recv" /\ round[u].taken < round[u].gen
    /\ IF round[u].cancel
       THEN SpeakerEnds(u)
       ELSE /\ LET s == round[u].taken + 1 IN
               round' = [round EXCEPT ![u].taken = s, ![u].syn[s] = "run", ![u].ahead = s,
                                      ![u].cur = round[u].ahead,
                                      ![u].sp = IF round[u].ahead = 0 THEN "recv" ELSE "wait"]
            /\ UNCHANGED mute
    /\ UNCHANGED <<Rest, wav, said, excused>>

\* No more sentences: what is ahead is spoken, unless cancelled.
SpeakerDrains(u) ==
    /\ Local(u) /\ round[u].sp = "recv"
    /\ round[u].taken = round[u].gen /\ round[u].genEnd # "no"
    /\ IF round[u].cancel \/ round[u].ahead = 0
       THEN SpeakerEnds(u)
       ELSE /\ round' = [round EXCEPT ![u].cur = round[u].ahead, ![u].ahead = 0, ![u].sp = "wait"]
            /\ UNCHANGED mute
    /\ UNCHANGED <<Rest, wav, said, excused>>

Back(u) == [round EXCEPT ![u].sp = "recv", ![u].cur = 0]

\* speak_pending_sentence, once the synthesis is there: mute and play.
StartPlaying(u) ==
    /\ round[u].sp = "wait" /\ round[u].syn[round[u].cur] = "ok" /\ ~round[u].cancel
    /\ mute' = (mute \/ round[u].first)
    /\ round' = [round EXCEPT ![u].sp = "play", ![u].first = FALSE]
    /\ excused' = (excused \/ Muting \ {u} # {})
    /\ UNCHANGED <<Rest, wav, said>>

\* The synthesis failed, or the round was cancelled while it ran.
SkipSentence(u) ==
    /\ round[u].sp = "wait"
    /\ round[u].syn[round[u].cur] = "bad" \/ (round[u].syn[round[u].cur] = "ok" /\ round[u].cancel)
    /\ round' = Back(u)
    /\ UNCHANGED <<Rest, mute, wav, said, excused>>

\* Mutant: the mute is lifted after each sentence.
PlayedUnmutes(u) ==
    /\ round[u].sp = "play"
    /\ round' = [Back(u) EXCEPT ![u].prefix = Append(@, round[u].cur)]
    /\ said' = said \cup {<<u, round[u].cur>>}
    /\ mute' = FALSE
    /\ UNCHANGED <<Rest, wav, excused>>

\* The player has ended by itself.
Played(u) ==
    /\ round[u].sp = "play"
    /\ round' = [Back(u) EXCEPT ![u].prefix = Append(@, round[u].cur)]
    /\ said' = said \cup {<<u, round[u].cur>>}
    /\ UNCHANGED <<Rest, mute, wav, excused>>

\* Mutant: a sentence cut short counts as spoken.
StopsAsPlayed(u) ==
    /\ round[u].sp = "play"
    /\ round' = [Back(u) EXCEPT ![u].prefix = Append(@, round[u].cur)]
    /\ UNCHANGED <<Rest, mute, wav, said, excused>>

\* The player is killed by the interruption, or fails.
PlayerStops(u) ==
    /\ round[u].sp = "play"
    /\ round' = Back(u)
    /\ UNCHANGED <<Rest, mute, wav, said, excused>>

-----------------------------------------------------------------------------
(* The end of round u                                                      *)

\* Mutant: a round that ends empties the slot, whoever is in it.
ReleaseAny(u) == activeRound' = 0

Ended(u)   == [NoRound EXCEPT !.pc = "end", 
                          !.syn = [s \in Parts |-> IF round[u].syn[s] = "run" THEN "run" ELSE "no"]]
Release(u) == activeRound' = IF activeRound = u THEN 0 ELSE activeRound

\* The slot is free again; speak what the leg has not spoken itself.
ReplyReady(u, spoken, cut) ==
    /\ Release(u)
    /\ IF ~spoken /\ ~cut
       THEN /\ round' = [round EXCEPT ![u].pc = "speak"]
            /\ mute' = TRUE
            /\ wav' = <<u, 0>>
            /\ excused' = (excused \/ Muting \ {u} # {})
       ELSE /\ round' = [round EXCEPT ![u].pc = "finish"]
            /\ UNCHANGED <<mute, wav, excused>>

Failed(u) ==
    /\ Release(u)
    /\ Record(u, <<>>, FALSE)
    /\ round' = [round EXCEPT ![u] = Ended(u)]
    /\ UNCHANGED <<mute, wav, excused>>

\* Agent or cloud: a reply, a fallback to the local model, or a failure.
RemoteEnds(u) ==
    /\ round[u].pc = "remote"
    /\ \/ ReplyReady(u, FALSE, FALSE) /\ UNCHANGED turns
       \/ /\ round' = [round EXCEPT ![u].pc = "local", ![u].sp = "recv"]
          /\ UNCHANGED <<activeRound, mute, wav, turns, excused>>
       \/ Failed(u)
    /\ UNCHANGED <<ear, inbox, bridge, said>>

LocalEnds(u) ==
    /\ Local(u) /\ round[u].genEnd # "no" /\ round[u].sp = "done"
    /\ IF round[u].genEnd = "bad"
       THEN Failed(u)
       ELSE ReplyReady(u, round[u].prefix # <<>>, round[u].cancel) /\ UNCHANGED turns
    /\ UNCHANGED <<ear, inbox, bridge, said>>

\* The reply was spoken in one piece, or could not be.
SpokenWhole(u) ==
    /\ round[u].pc = "speak"
    /\ round' = [round EXCEPT ![u].pc = "finish"]
    /\ mute' = FALSE
    /\ UNCHANGED <<Rest, wav, said, excused>>

\* The turn is recorded, a local round that was cancelled with what was played.
\* A synthesis still running goes on.
Finish(u) ==
    /\ round[u].pc = "finish"
    /\ LET cut == round[u].cancel /\ round[u].sp = "done" IN
       Record(u, IF cut THEN round[u].prefix ELSE Whole, cut)
    /\ round' = [round EXCEPT ![u] = Ended(u)]
    /\ UNCHANGED <<ear, mute, inbox, bridge, activeRound, wav, said, excused>>

-----------------------------------------------------------------------------

BridgeStep == Take \/ Interrupt \/ Backchannel \/ Supersede \/ Command \/ CommandSpoken
              \/ NoReply \/ StartRound

SpeakerStep(u) ==
    \/ SpeakerTakes(u) \/ SpeakerDrains(u) \/ StartPlaying(u) \/ SkipSentence(u)
    \/ Played(u) \/ PlayerStops(u)

RoundStep(u) == RemoteEnds(u) \/ LocalEnds(u) \/ SpokenWhole(u) \/ Finish(u)

TalkNext ==
    \/ \E k \in Kinds : HearUtterance(k)
    \/ MuteExpires \/ BridgeStep
    \/ \E u \in Us : \/ Transcribed(u) \/ Generate(u) \/ SpeakerStep(u) \/ RoundStep(u)
                     \/ \E s \in Parts : Synthesize(u, s)

\* The runtime polls the tasks; inference, synthesis and playback return.
TalkSpec ==
    /\ TalkInit /\ [][TalkNext]_talkVars
    /\ WF_talkVars(BridgeStep)
    /\ \A u \in Us :
        /\ WF_talkVars(Transcribed(u)) /\ WF_talkVars(Generate(u))
        /\ WF_talkVars(SpeakerStep(u)) /\ WF_talkVars(RoundStep(u))
        /\ \A s \in Parts : WF_talkVars(Synthesize(u, s))

-----------------------------------------------------------------------------
(* Properties                                                              *)

\* At most one round is being answered: every other one still at work has been
\* told to stop, however transcripts, verdicts and the ends of rounds
\* interleave.
OneVoice ==
    \A u \in Us : round[u].pc \in {"remote", "local"} /\ activeRound # u => round[u].cancel

\* The record of an interrupted turn claims the sentences that were played to
\* the end, in their order, and no other.
HonestReply ==
    \A u \in Us : turns[u].cut =>
        /\ {<<u, turns[u].reply[k]>> : k \in DOMAIN turns[u].reply} = {p \in said : p[1] = u}
        /\ \A j, k \in DOMAIN turns[u].reply : j < k => turns[u].reply[j] < turns[u].reply[k]

\* The ear is deaf while the device speaks, as long as nobody else's playback
\* gets in between and the mute's cap is not reached.
DeafWhileSpeaking ==
    Playing # {} /\ ~excused => mute

\* Every utterance handed to the bridge becomes a turn on record, except an
\* empty one in the middle of a round, and the ear opens again, without the
\* help of the mute's cap.
DialogueSettles ==
    \A u \in Us : (\E k \in DOMAIN inbox : inbox[k] = u)
                   ~> ((turns[u].done \/ kind[u] = "blank") /\ ~mute)

\* spoken_prefix "accumulates the sentences that actually finished playing":
\* the file a player is started on holds the sentence it is started for.
PlaysItsSentence ==
    [][\A u \in Us : round[u].sp # "play" /\ round'[u].sp = "play" => wav = <<u, round[u].cur>>]_talkVars
=============================================================================
