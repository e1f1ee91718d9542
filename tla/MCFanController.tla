-------------------------- MODULE MCFanController --------------------------
EXTENDS FanController

\* Two steps of the calibration; temperatures at both ends of the curve and between.
TwoSteps == <<100, 40>>
Explored == [temp : {45, 58, 70}, busy : {FALSE}] \cup [temp : {45}, busy : {TRUE}]
Requests ==
  [action : {"manual"}, duty : {40}] \cup [action : {"automatic"}, enabled : {TRUE}]
=============================================================================
