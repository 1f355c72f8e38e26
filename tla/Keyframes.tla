------------------------------- MODULE Keyframes -------------------------------
(***************************************************************************)
(* From a video to its key frames and segments: extract_keyframes of       *)
(* app/vision/keyframes.py, then analyze_keyframes and                     *)
(* build_video_segments of app/vision/frame_analysis.py, for one attempt.  *)
(* What the retention sweep does to the files is in Sweep.                 *)
(***************************************************************************)
EXTENDS Rounding, Sequences, FiniteSets

CONSTANTS
  FrameCounts,    \* those that a video can have, or claim to have
  Requested,      \* max_keyframes
  PerKeyframe,    \* candidates that are decoded for each, and ...
  Fewest,         \* ... at least
  Levels,         \* the brightness of a frame, by which two frames differ
  Scores,         \* what a candidate is worth
  MinDifference,  \* MIN_KEYFRAME_DIFFERENCE
  MinGap,         \* between two segments, in frames
  MaxSegments,    \* max_segments
  VisionMax       \* settings.vision_max_keyframes

ASSUME KeyframesAssumption ==
  /\ FrameCounts \subseteq Nat /\ Requested \subseteq Nat \ {0}
  /\ {PerKeyframe, MaxSegments} \subseteq Nat \ {0} /\ Fewest \in Nat \ {0, 1}
  /\ Levels \cup Scores \subseteq Int /\ {MinDifference, MinGap, VisionMax} \subseteq Nat

VARIABLES
  frames,     \* frame_count
  wanted,     \* max_keyframes
  stage,
  tried,      \* how many candidates were read, then how many frames written
  candidate,  \* those that could be read, in the order of time
  chosen,     \* those that are selected, as positions in candidate
  kept        \* the keyframes: the candidate, the number in the file's name, the analysis

keyframesVars == <<frames, wanted, stage, tried, candidate, chosen, kept>>

S == INSTANCE SequencesExt

Lower(a, b) == IF a <= b THEN a ELSE b
Higher(a, b) == IF a >= b THEN a ELSE b

\* A set in an order, given as pairs: the k-th member has k - 1 before it.
Ordered(set, before) ==
  [k \in 1 .. Cardinality(set) |->
     CHOOSE x \in set : Cardinality({y \in set : <<y, x>> \in before}) = k - 1]

Sorted(numbers) == Ordered(numbers, {p \in numbers \X numbers : p[1] < p[2]})
Apart(a, b) == (IF a >= b THEN a - b ELSE b - a) >= MinDifference

-----------------------------------------------------------------------------
(* _candidate_frame_indices, and the candidates that can be read.          *)

\* Evenly spread from the first frame to the last.
Indices(total, count) ==
  LET n == Lower(count, total)
  IN  IF n <= 1 THEN {0} ELSE {Rounded(i * (total - 1), n - 1) : i \in 0 .. n - 1}

CandidateIndices == Sorted(Indices(frames, Higher(wanted * PerKeyframe, Fewest)))

Decode ==
  /\ stage = "decoding" /\ tried < Len(CandidateIndices)
  /\ tried' = tried + 1
  /\ \/ UNCHANGED candidate
     \/ \E level \in Levels, score \in Scores :
          candidate' = Append(candidate,
            [index |-> CandidateIndices[tried + 1], level |-> level, score |-> score])
  /\ UNCHANGED <<frames, wanted, stage, chosen, kept>>

-----------------------------------------------------------------------------
(* _select_high_value_candidates.                                          *)

\* Positions in the order of score, and of time when it is the same.
Before(i, j) ==
  \/ candidate[i].score > candidate[j].score
  \/ candidate[i].score = candidate[j].score /\ i < j

ByScore(positions) ==
  Ordered(positions, {p \in positions \X positions : Before(p[1], p[2])})

\* _is_visually_distinct
Distinct(i, picked) == \A j \in picked : Apart(candidate[i].level, candidate[j].level)

\* The best of a bucket that is distinct, if any.
AddBest(picked, positions) ==
  LET good == {i \in positions : Distinct(i, picked)}
  IN  IF good = {} THEN picked ELSE picked \cup {ByScore(good)[1]}

\* _candidate_bucket
Bucket(b, buckets) ==
  LET n == Len(candidate)
      start == Rounded(b * n, buckets)
      end == Rounded((b + 1) * n, buckets)
  IN  start + 1 .. Lower(n, Higher(start + 1, end))

Buckets == Lower(wanted, Len(candidate))

FromBuckets ==
  S!FoldLeft(LAMBDA picked, b : AddBest(picked, Bucket(b - 1, Buckets)), {}, [b \in 1 .. Buckets |-> b])

\* Fault: what the buckets give is all.
BucketsOnly == FromBuckets

\* The rest is filled up with the best of all.
Selection ==
  S!FoldLeft(LAMBDA picked, i : IF Cardinality(picked) < wanted /\ Distinct(i, picked)
                                THEN picked \cup {i} ELSE picked,
             FromBuckets, ByScore(DOMAIN candidate \ FromBuckets))

Select ==
  /\ stage = "decoding" /\ tried = Len(CandidateIndices)
  /\ chosen' = Sorted(Selection)
  /\ stage' = "writing" /\ tried' = 0
  /\ UNCHANGED <<frames, wanted, candidate, kept>>

\* A frame that cannot be written is left out, and its number goes to the next one.
WriteFrame ==
  /\ stage = "writing" /\ tried < Len(chosen)
  /\ tried' = tried + 1
  /\ \/ UNCHANGED kept
     \/ kept' = Append(kept, [frame |-> candidate[chosen[tried + 1]], number |-> Len(kept) + 1,
                              mode |-> "none"])
  /\ UNCHANGED <<frames, wanted, stage, candidate, chosen>>

-----------------------------------------------------------------------------
(* analyze_keyframes, build_video_segments.                                *)

\* The first ones are shown to the model, if there is one, and each may fail by itself.
Analyse ==
  /\ stage = "writing" /\ tried = Len(chosen)
  /\ \E model \in BOOLEAN : \E failing \in SUBSET DOMAIN kept :
       kept' = [k \in DOMAIN kept |-> [kept[k] EXCEPT !.mode =
         IF ~ model THEN "model_disabled"
         ELSE IF k > Higher(1, VisionMax) THEN "vision_skipped_limit"
         ELSE IF k \in failing THEN "vision_fallback" ELSE "model"]]
  /\ stage' = "done"
  /\ UNCHANGED <<frames, wanted, tried, candidate, chosen>>

\* A new group starts after a long gap, as long as there may be another one.
Joined(target) ==
  LET gap(k) == kept[k].frame.index - kept[k - 1].frame.index
      long(k) == gap(k) >= MinGap /\ gap(k) * 2 * target >= frames
      add(groups, k) ==
        IF groups # <<>> /\ (~ long(k) \/ Len(groups) >= target)
        THEN [groups EXCEPT ![Len(groups)] = Append(@, k)] ELSE Append(groups, <<k>>)
  IN  S!FoldLeft(add, <<>>, [k \in DOMAIN kept |-> k])

\* The first of the largest groups becomes two.
Halved(groups) ==
  LET g == CHOOSE g \in DOMAIN groups : \A h \in DOMAIN groups :
             Len(groups[g]) > Len(groups[h]) \/ (Len(groups[g]) = Len(groups[h]) /\ g <= h)
      half == Len(groups[g]) \div 2
  IN  IF Len(groups[g]) <= 1 THEN groups
      ELSE SubSeq(groups, 1, g - 1)
             \o <<SubSeq(groups[g], 1, half), SubSeq(groups[g], half + 1, Len(groups[g]))>>
             \o SubSeq(groups, g + 1, Len(groups))

\* _split_frames_into_groups
Segments ==
  LET target == Higher(1, Lower(MaxSegments, Len(kept)))
  IN  IF Len(kept) <= target THEN [k \in DOMAIN kept |-> <<k>>]
      ELSE S!FoldLeft(LAMBDA groups, n : IF Len(groups) < target THEN Halved(groups) ELSE groups,
                      Joined(target), [n \in 1 .. target |-> n])

KeyframesInit ==
  /\ frames \in FrameCounts /\ wanted \in Requested
  /\ stage = IF frames = 0 THEN "done" ELSE "decoding"
  /\ tried = 0
  /\ candidate = <<>> /\ chosen = <<>> /\ kept = <<>>

KeyframesNext == Decode \/ Select \/ WriteFrame \/ Analyse

KeyframesSpec == KeyframesInit /\ [][KeyframesNext]_keyframesVars

-----------------------------------------------------------------------------
KeyframesTypeOK ==
  /\ frames \in FrameCounts /\ wanted \in Requested
  /\ stage \in {"decoding", "writing", "done"}
  /\ tried \in 0 .. Higher(Len(CandidateIndices), wanted)
  /\ \A k \in DOMAIN candidate : candidate[k] \in [index : 0 .. frames, level : Levels, score : Scores]

Chosen == S!ToSet(chosen)

\* The frames that are tried are as many as there should be, from the first to the last, and
\* no two gaps between them differ by more than one.
IndicesAreSpread ==
  LET list == CandidateIndices
      gaps == {list[k + 1] - list[k] : k \in 1 .. Len(list) - 1}
  IN  /\ Len(list) = Lower(frames, Higher(wanted * PerKeyframe, Fewest))
      /\ list[1] = 0 /\ list[Len(list)] = frames - 1
      /\ \A a, b \in gaps : a <= b + 1

\* No more frames than requested are chosen, no two alike, and none is missing: when there
\* are fewer, every other candidate looks like one of them, and no part of the video goes
\* without a frame of its own or one that looks like it.
SelectionIsComplete ==
  /\ Cardinality(Chosen) <= wanted
  /\ \A i \in Chosen : Distinct(i, Chosen \ {i})
  /\ Cardinality(Chosen) < wanted => \A i \in DOMAIN candidate : i \in Chosen \/ ~ Distinct(i, Chosen)
  /\ \A b \in 0 .. Buckets - 1 :
       Bucket(b, Buckets) \cap Chosen # {} \/ \A i \in Bucket(b, Buckets) : ~ Distinct(i, Chosen)

\* The segments hold every keyframe once, in the order of time, and there are as many as
\* there can be.
SegmentsArePartition ==
  /\ S!FlattenSeq(Segments) = [k \in DOMAIN kept |-> k]
  /\ \A g \in DOMAIN Segments : Segments[g] # <<>>
  /\ Len(Segments) = Lower(MaxSegments, Len(kept))

\* What a video's keyframes are, whichever frames could not be read or written.
FramesAreChosen ==
  /\ stage = "decoding" /\ tried = 0 => IndicesAreSpread
  /\ stage = "writing" /\ tried = 0 => SelectionIsComplete
  /\ stage = "done" => SegmentsArePartition /\ \A k \in DOMAIN kept : kept[k].number = k
=============================================================================
