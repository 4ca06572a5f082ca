---------------------------- MODULE MCCoursePages ----------------------------
(* CoursePages with the pages of MCTrackPages.                              *)
EXTENDS CoursePages, MCTrackPages
=============================================================================
