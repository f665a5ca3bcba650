SPECIFICATION CourseSpec
CONSTANTS
    LastLesson = 1
    MaxPosts = 3
    MaxChanges = 1
    MaxPlans = 2
PROPERTIES OutlineLocked
CHECK_DEADLOCK FALSE
